---- MODULE Spec2Model ----
(***************************************************************************)
(* clifx: animated colour sweeps ("shine", "shine2d") and flickers         *)
(* ("twinkle") over text written to a terminal.                            *)
(*                                                                         *)
(* The module models main (src/src/main.rs) driving the three renderers    *)
(* apply_shine_effect (effects/shine.rs), apply_shine2d_effect             *)
(* (effects/shine2d.rs) and apply_twinkle_effect (effects/twinkle.rs).     *)
(* Every execute!(..), stdout.flush(), println!() and thread::sleep(..) of *)
(* the source is one output operation; a renderer is the sequence of       *)
(* operations its control flow issues.  execute! and flush may fail and    *)
(* the failure is returned with `?`; println! panics when it fails.        *)
(*                                                                         *)
(* f32 values are exact rationals <<n, d>> with d > 0; <<n, 0>> is NaN.    *)
(***************************************************************************)
EXTENDS Integers, Sequences, FiniteSets

VARIABLES
    command,         \* Commands variant chosen on the command line
    config,          \* ShineConfig / Shine2DConfig / TwinkleConfig fields
    input_lines,     \* main: Vec<String> read from stdin before rendering
    pc,              \* position of the control flow
    line,            \* main: number of renderer calls started
    text,            \* the renderer's `text` argument (a sequence of chars)
    total_frames,    \* renderer local
    cycle,           \* renderer local: loop variable of the cycle loop
    frame,           \* renderer local: frames of this cycle already started
    twinkle_states,  \* twinkle local: HashMap<usize, TwinkleState>
    rng,             \* twinkle local: the samples explored of rand::thread_rng()
    ops,             \* output operations issued and not yet executed
    trace,           \* output operations executed by the current call
    history,         \* finished renderer calls: text, return value, trace
    exit,            \* how the process ended, "running" until then
    blend_in,        \* inputs of the blend_colors check
    blend_out,       \* results of the three copies of blend_colors
    sample_in,       \* arguments of a function applied on its own
    sample_out       \* what the function returned for sample_in

vars == <<command, config, input_lines, pc, line, text, total_frames, cycle,
          frame, twinkle_states, rng, ops, trace, history, exit, blend_in, blend_out,
          sample_in, sample_out>>

(***************************************************************************)
(* Bounds of the exploration.                                              *)
(***************************************************************************)
\* longest input line (characters)
MaxLen == 2
\* largest configured cycle count; also the number of cycles explored of a
\* run with cycles = 0
MaxCycles == 2

(***************************************************************************)
(* f32 arithmetic on exact rationals; a zero denominator is NaN.           *)
(***************************************************************************)
Abs(i) == IF i < 0 THEN -i ELSE i

RECURSIVE Gcd(_, _)
Gcd(a, b) == IF b = 0 THEN a ELSE Gcd(b, a % b)

F(n) == <<n, 1>>
NaN == <<0, 0>>
IsNaN(x) == x[2] = 0
Norm(x) ==
    IF IsNaN(x) THEN NaN
    ELSE LET g == Gcd(Abs(x[1]), x[2]) IN <<x[1] \div g, x[2] \div g>>
FAdd(x, y) == Norm(<<x[1] * y[2] + y[1] * x[2], x[2] * y[2]>>)
FSub(x, y) == Norm(<<x[1] * y[2] - y[1] * x[2], x[2] * y[2]>>)
FMul(x, y) == Norm(<<x[1] * y[1], x[2] * y[2]>>)
\* x / y; 0.0 / 0.0 is NaN (the only division by zero the renderers make)
FDiv(x, y) ==
    IF IsNaN(x) \/ IsNaN(y) \/ y[1] = 0 THEN NaN
    ELSE IF y[1] < 0 THEN Norm(<<-(x[1] * y[2]), x[2] * (-y[1])>>)
    ELSE Norm(<<x[1] * y[2], x[2] * y[1]>>)
\* comparisons with NaN are false
FLt(x, y) == ~IsNaN(x) /\ ~IsNaN(y) /\ x[1] * y[2] < y[1] * x[2]
FLe(x, y) == ~IsNaN(x) /\ ~IsNaN(y) /\ x[1] * y[2] <= y[1] * x[2]
FGe(x, y) == FLe(y, x)
FEq(x, y) == ~IsNaN(x) /\ ~IsNaN(y) /\ x[1] * y[2] = y[1] * x[2]
FAbs(x) == <<Abs(x[1]), x[2]>>
\* f32::clamp(lo, hi): NaN stays NaN
FClamp(x, lo, hi) ==
    IF IsNaN(x) THEN NaN ELSE IF FLt(x, lo) THEN lo ELSE IF FLt(hi, x) THEN hi ELSE x
\* `as isize` / `as usize`: truncation toward zero, NaN becomes 0
FTrunc(x) ==
    IF IsNaN(x) THEN 0
    ELSE IF x[1] < 0 THEN -((-x[1]) \div x[2]) ELSE x[1] \div x[2]
\* `as u8`: truncation, saturating at 0 and 255, NaN becomes 0
AsU8(x) ==
    LET t == FTrunc(x) IN IF t < 0 THEN 0 ELSE IF t > 255 THEN 255 ELSE t
\* f32::round: half away from zero
FRound(x) ==
    IF IsNaN(x) THEN 0
    ELSE IF x[1] < 0 THEN -((2 * (-x[1]) + x[2]) \div (2 * x[2]))
    ELSE (2 * x[1] + x[2]) \div (2 * x[2])

Half == <<1, 2>>

(***************************************************************************)
(* EasingFunction::apply                                                   *)
(***************************************************************************)
EasingFunction == {"Linear", "EaseIn", "EaseOut", "EaseInOut"}

apply(easing, t) ==
    CASE easing = "Linear" -> t
      [] easing = "EaseIn" -> FMul(t, t)
      [] easing = "EaseOut" -> FSub(F(1), FMul(FSub(F(1), t), FSub(F(1), t)))
      [] easing = "EaseInOut" ->
            IF FLt(t, Half)
            THEN FMul(F(2), FMul(t, t))
            ELSE LET u == FAdd(FMul(F(-2), t), F(2))
                 IN  FSub(F(1), FDiv(FMul(u, u), F(2)))

(***************************************************************************)
(* Colours.  A crossterm Color is Color::Rgb {r, g, b} or a named colour.  *)
(***************************************************************************)
Rgb(r, g, b) == [kind |-> "Rgb", r |-> r, g |-> g, b |-> b]
NamedColor(n) == [kind |-> n, r |-> 0, g |-> 0, b |-> 0]

\* the match of blend_colors: a colour that is not Rgb counts as white
Channels(c) == IF c.kind = "Rgb" THEN <<c.r, c.g, c.b>> ELSE <<255, 255, 255>>

\* a copy that rounds to nearest instead of truncating
BlendChannelRounding(b, s, intensity) ==
    FRound(FAdd(FMul(F(b), FSub(F(1), intensity)), FMul(F(s), intensity)))

BlendChannel(b, s, intensity) ==
    AsU8(FAdd(FMul(F(b), FSub(F(1), intensity)), FMul(F(s), intensity)))

\* effects/shine.rs
shine_blend_colors(base, shine, intensity0) ==
    LET intensity == FClamp(intensity0, F(0), F(1))
        bc == Channels(base)
        sc == Channels(shine)
    IN  Rgb(BlendChannel(bc[1], sc[1], intensity),
            BlendChannel(bc[2], sc[2], intensity),
            BlendChannel(bc[3], sc[3], intensity))

\* effects/shine2d.rs
shine2d_blend_colors(base, shine, intensity0) ==
    LET intensity == FClamp(intensity0, F(0), F(1))
        bc == Channels(base)
        sc == Channels(shine)
    IN  Rgb(BlendChannel(bc[1], sc[1], intensity),
            BlendChannel(bc[2], sc[2], intensity),
            BlendChannel(bc[3], sc[3], intensity))

\* effects/twinkle.rs
twinkle_blend_colors(base, twinkle, intensity0) ==
    LET intensity == FClamp(intensity0, F(0), F(1))
        bc == Channels(base)
        tc == Channels(twinkle)
    IN  Rgb(BlendChannel(bc[1], tc[1], intensity),
            BlendChannel(bc[2], tc[2], intensity),
            BlendChannel(bc[3], tc[3], intensity))

(***************************************************************************)
(* Output operations.  One record per execute!(..), stdout.flush(),        *)
(* println!() or thread::sleep(..) of the source.                          *)
(*   op    : the call                                                      *)
(*   what  : the characters printed, or the kind of sleep                  *)
(*   color : the foreground colour set by the call, <<>> if none           *)
(*   ms    : the duration of a sleep                                       *)
(***************************************************************************)
Op(op, what, color, ms) == [op |-> op, what |-> what, color |-> color, ms |-> ms]

ClearHide(all) ==
    Op("Hide", <<IF all THEN "Clear(All)" ELSE "Clear(CurrentLine)">>, <<>>, 0)
SavePositionHide == Op("Hide", <<"SavePosition">>, <<>>, 0)
MoveTo == Op("Move", <<"MoveTo">>, <<>>, 0)
MoveToColumn == Op("Move", <<"MoveToColumn(0)">>, <<>>, 0)
RestorePosition == Op("Move", <<"RestorePosition">>, <<>>, 0)
PrintCh(color, ch) == Op("PrintCh", <<ch>>, <<color>>, 0)
PrintNewline == Op("PrintCh", <<"\n">>, <<>>, 0)
PrintText(color, t) == Op("PrintText", t, <<color>>, 0)
ResetColor == Op("ResetColor", <<>>, <<>>, 0)
Flush == Op("Flush", <<>>, <<>>, 0)
Show == Op("Show", <<>>, <<>>, 0)
Println == Op("println", <<"\n">>, <<>>, 0)
Sleep(kind, ms) == Op("sleep", <<kind>>, <<>>, ms)

\* execute! and flush return io::Result; println! panics on failure
Fallible(o) == o.op \in {"Hide", "Move", "PrintCh", "PrintText", "ResetColor", "Flush", "Show"}
Panics(o) == o.op = "println"

\* Option<T>: None is <<>>, Some(x) is <<x>>
None == <<>>
Some(x) == <<x>>
IsSome(o) == o # <<>>
Unwrap(o) == o[1]

\* thread::sleep(..) guarded by `if let Some(ms) = delay`
SleepIf(cond, kind, delay) ==
    IF cond /\ IsSome(delay) THEN <<Sleep(kind, Unwrap(delay))>> ELSE <<>>

(***************************************************************************)
(* Cycle clock shared by the renderers.                                    *)
(***************************************************************************)
\* stand-in for usize::MAX (at least 2^32 - 1), the cycle count of a run with
\* cycles = 0; it only has to exceed every cycle index explored
USIZE_MAX == 2147483647

\* a cycle count that takes cycles = 0 as "no cycle"
cycles_to_run_zero_is_none(cfg) == cfg.cycles

cycles_to_run(cfg) == IF cfg.cycles = 0 THEN USIZE_MAX ELSE cfg.cycles

\* a frame count that rounds the quotient up
total_frames_rounded_up(cfg) == (cfg.duration + cfg.speed - 1) \div cfg.speed

\* (config.duration / config.speed) as usize, for speed # 0
TotalFrames(cfg) == cfg.duration \div cfg.speed

\* frame as f32 / (total_frames - 1) as f32
Progress(f, tf) == FDiv(F(f), F(tf - 1))

\* `frame > 0 && prev_progress < 0.5 && eased_progress >= 0.5`
SwitchbackCrossed(cfg, f, tf) ==
    LET eased_progress == apply(cfg.easing, Progress(f, tf))
        prev_progress == IF f > 0 THEN apply(cfg.easing, Progress(f - 1, tf)) ELSE F(0)
    IN  f > 0 /\ FLt(prev_progress, Half) /\ FGe(eased_progress, Half)

back_and_forth_progress(cfg, f, tf) ==
    LET eased_progress == apply(cfg.easing, Progress(f, tf))
    IN  IF FLt(eased_progress, Half)
        THEN FMul(eased_progress, F(2))
        ELSE FSub(F(2), FMul(eased_progress, F(2)))

pause_tolerance == <<1, 20>>

(***************************************************************************)
(* apply_shine_effect: one frame (effects/shine.rs)                        *)
(***************************************************************************)
shine_total_range(cfg, t) == Len(t) + 2 * cfg.padding

shine_position(cfg, t, f, tf) ==
    LET bf == back_and_forth_progress(cfg, f, tf)
        span == F(shine_total_range(cfg, t) - 1)
    IN  IF cfg.start = "Beginning"
        THEN FTrunc(FMul(bf, span)) - cfg.padding
        ELSE FTrunc(FMul(FSub(F(1), bf), span)) - cfg.padding

ShinePauseHere(cfg, t, f, tf) ==
    LET normalized_position ==
            FDiv(F(shine_position(cfg, t, f, tf) + cfg.padding),
                 F(shine_total_range(cfg, t)))
    IN  FLt(FAbs(FSub(normalized_position, cfg.pause_position)), pause_tolerance)

\* without blur, every character within the radius at full intensity
shine_char_color_hard_edge(cfg, i, pos) ==
    LET distance_from_shine == F(Abs(i - pos))
        shine_radius == F(cfg.width)
        shine_intensity ==
            IF cfg.blur THEN FSub(F(1), FDiv(distance_from_shine, shine_radius))
            ELSE F(1)
    IN  IF FLe(distance_from_shine, shine_radius)
        THEN shine_blend_colors(cfg.base_color, cfg.shine_color,
                                FMul(shine_intensity, cfg.opacity))
        ELSE cfg.base_color

\* colour of character i (0-based) with the sweep at pos
shine_char_color(cfg, i, pos) ==
    LET distance_from_shine == F(Abs(i - pos))
        shine_radius == F(cfg.width)
        shine_intensity ==
            IF cfg.blur THEN FSub(F(1), FDiv(distance_from_shine, shine_radius))
            ELSE IF FEq(distance_from_shine, F(0)) THEN F(1)
            ELSE F(0)
    IN  IF FLe(distance_from_shine, shine_radius)
        THEN shine_blend_colors(cfg.base_color, cfg.shine_color,
                                FMul(shine_intensity, cfg.opacity))
        ELSE cfg.base_color

ShineFrameOps(cfg, t, f, tf) ==
    LET pos == shine_position(cfg, t, f, tf)
    IN  SleepIf(SwitchbackCrossed(cfg, f, tf), "switchback", cfg.cycle_switchback_delay)
        \o SleepIf(ShinePauseHere(cfg, t, f, tf), "pause", cfg.pause_length)
        \o <<IF cfg.centering THEN MoveTo ELSE MoveToColumn>>
        \o [i \in 1..Len(t) |-> PrintCh(shine_char_color(cfg, i - 1, pos), t[i])]
        \o <<ResetColor, Flush, Sleep("frame", cfg.speed)>>

(***************************************************************************)
(* apply_shine2d_effect: grid and one frame (effects/shine2d.rs)           *)
(***************************************************************************)
RECURSIVE WrapFrom(_, _, _, _, _)
WrapFrom(t, i, terminal_width, grid, current_line) ==
    IF i > Len(t)
    THEN IF current_line # <<>> THEN Append(grid, current_line) ELSE grid
    ELSE IF t[i] = "\n"
         THEN WrapFrom(t, i + 1, terminal_width, Append(grid, current_line), <<>>)
         ELSE LET pushed == Append(current_line, t[i])
              IN  IF Len(pushed) >= terminal_width
                  THEN WrapFrom(t, i + 1, terminal_width, Append(grid, pushed), <<>>)
                  ELSE WrapFrom(t, i + 1, terminal_width, grid, pushed)

\* a grid whose rows break one character late
wrap_text_past_width(t, terminal_width) == WrapFrom(t, 1, terminal_width + 1, <<>>, <<>>)

wrap_text_to_grid(t, terminal_width) == WrapFrom(t, 1, terminal_width, <<>>, <<>>)

\* config.terminal_width, else the terminal's width, else 80
Shine2dTerminalWidth(cfg) ==
    IF IsSome(cfg.terminal_width) THEN Unwrap(cfg.terminal_width) ELSE 80

Shine2dGrid(cfg, t) == wrap_text_to_grid(t, Shine2dTerminalWidth(cfg))

RECURSIVE MaxRowLen(_, _)
MaxRowLen(grid, y) ==
    IF y > Len(grid) THEN 0
    ELSE LET rest == MaxRowLen(grid, y + 1)
         IN  IF Len(grid[y]) > rest THEN Len(grid[y]) ELSE rest

grid_max_width(grid) == MaxRowLen(grid, 1)

\* f32 sqrt of an integer, to the sixteenth below
SqrtSixteenths(n) ==
    <<CHOOSE m \in 0..(16 * (n + 1)) : m * m <= 256 * n /\ (m + 1) * (m + 1) > 256 * n, 16>>

shine_range(cfg, grid) ==
    LET max_width == grid_max_width(grid)
        grid_height == Len(grid)
        diagonal_length == SqrtSixteenths(max_width * max_width + grid_height * grid_height)
    IN  FAdd(diagonal_length, F(2 * cfg.padding))

\* a sweep coordinate that is not shifted back by the padding
shine2d_position_unshifted(cfg, grid, f, tf) ==
    LET bf == back_and_forth_progress(cfg, f, tf)
    IN  IF cfg.start = "Beginning"
        THEN FMul(bf, shine_range(cfg, grid))
        ELSE FMul(FSub(F(1), bf), shine_range(cfg, grid))

shine2d_position(cfg, grid, f, tf) ==
    LET bf == back_and_forth_progress(cfg, f, tf)
    IN  IF cfg.start = "Beginning"
        THEN FSub(FMul(bf, shine_range(cfg, grid)), F(cfg.padding))
        ELSE FSub(FMul(FSub(F(1), bf), shine_range(cfg, grid)), F(cfg.padding))

Shine2dPauseHere(cfg, grid, f, tf) ==
    LET normalized_position ==
            FDiv(FAdd(shine2d_position(cfg, grid, f, tf), F(cfg.padding)),
                 shine_range(cfg, grid))
    IN  FLt(FAbs(FSub(normalized_position, cfg.pause_position)), pause_tolerance)

\* angle is 0 (horizontal line) or 90 (vertical line)
calculate_2d_shine_intensity(x, y, shine_line, angle, width, blur) ==
    LET distance ==
            IF angle = 0 THEN FAbs(FSub(F(y), shine_line))
            ELSE FAbs(FSub(F(x), shine_line))
    IN  IF FLe(distance, width)
        THEN IF blur THEN FSub(F(1), FDiv(distance, width))
             ELSE IF FLe(distance, Half) THEN F(1)
             ELSE F(0)
        ELSE F(0)

shine2d_cell_color(cfg, x, y, shine_line) ==
    LET intensity ==
            calculate_2d_shine_intensity(x, y, shine_line, cfg.angle, F(cfg.width), cfg.blur)
    IN  IF FLt(F(0), intensity)
        THEN shine2d_blend_colors(cfg.base_color, cfg.shine_color,
                                  FMul(intensity, cfg.opacity))
        ELSE cfg.base_color

RECURSIVE Shine2dRowsOps(_, _, _, _)
Shine2dRowsOps(cfg, grid, y, shine_line) ==
    IF y > Len(grid) THEN <<>>
    ELSE <<MoveToColumn>>
         \o [x \in 1..Len(grid[y]) |->
                PrintCh(shine2d_cell_color(cfg, x - 1, y - 1, shine_line), grid[y][x])]
         \o (IF y < Len(grid) THEN <<PrintNewline>> ELSE <<>>)
         \o Shine2dRowsOps(cfg, grid, y + 1, shine_line)

Shine2dFrameOps(cfg, grid, f, tf) ==
    SleepIf(SwitchbackCrossed(cfg, f, tf), "switchback", cfg.cycle_switchback_delay)
    \o SleepIf(Shine2dPauseHere(cfg, grid, f, tf), "pause", cfg.pause_length)
    \o <<RestorePosition>>
    \o Shine2dRowsOps(cfg, grid, 1, shine2d_position(cfg, grid, f, tf))
    \o <<ResetColor, Flush, Sleep("frame", cfg.speed)>>

(***************************************************************************)
(* apply_twinkle_effect: slots and one frame (effects/twinkle.rs)          *)
(***************************************************************************)
TWINKLE_CHARS == <<".", "U+00B7", "U+2022", "U+22C5", "U+2218", "U+25CB", "U+25CF">>
TWINKLE_CHARS_STAR ==
    <<".", "U+2726", "U+2727", "U+22C6", "U+2729", "U+272A", "U+272B", "U+2B50", "*">>

calculate_three_phase_progress(phase0, pause_duration_ratio, easing) ==
    LET phase == FClamp(phase0, F(0), F(1))
        ease_duration == FDiv(FSub(F(1), pause_duration_ratio), F(2))
        ease_up_end == ease_duration
        pause_end == FAdd(ease_up_end, pause_duration_ratio)
    IN  IF FLe(phase, ease_up_end)
        THEN apply(easing, FDiv(phase, ease_duration))
        ELSE IF FLe(phase, pause_end)
        THEN F(1)
        ELSE apply(easing, FSub(F(1), FDiv(FSub(phase, pause_end), ease_duration)))

get_twinkle_char(progress, star_mode) ==
    LET eased_progress == FClamp(progress, F(0), F(1))
        chars == IF star_mode THEN TWINKLE_CHARS_STAR ELSE TWINKLE_CHARS
        index == FRound(FMul(eased_progress, F(Len(chars) - 1)))
    IN  chars[(IF index < Len(chars) - 1 THEN index ELSE Len(chars) - 1) + 1]

\* 0-based positions of the '.' characters, in order
RECURSIVE PeriodsFrom(_, _)
PeriodsFrom(t, i) ==
    IF i > Len(t) THEN <<>>
    ELSE (IF t[i] = "." THEN <<i - 1>> ELSE <<>>) \o PeriodsFrom(t, i + 1)

\* an anchor list that takes every character as an anchor
every_position(t) == [i \in 1..Len(t) |-> i - 1]

period_positions(t) == PeriodsFrom(t, 1)

Min(a, b) == IF a < b THEN a ELSE b
Max(a, b) == IF a > b THEN a ELSE b

\* rng.gen::<f32>() < twinkling_percentage, the draw being in [0, 1)
ShouldTwinkleOutcomes(cfg) ==
    {b \in BOOLEAN : IF b THEN FLt(F(0), cfg.twinkling_percentage)
                              ELSE FLt(cfg.twinkling_percentage, F(1))}

\* min..=max.min(period_positions.len()) is empty: gen_range panics
TwinkleRangeEmpty(cfg, k) ==
    /\ IsSome(cfg.min_twinkle_count) /\ IsSome(cfg.max_twinkle_count)
    /\ Unwrap(cfg.min_twinkle_count) > Min(Unwrap(cfg.max_twinkle_count), k)

\* the values twinkle_count can take on one frame
TwinkleCounts(cfg, k) ==
    IF IsSome(cfg.min_twinkle_count) /\ IsSome(cfg.max_twinkle_count)
    THEN Unwrap(cfg.min_twinkle_count)..Min(Unwrap(cfg.max_twinkle_count), k)
    ELSE IF IsSome(cfg.twinkle_ratio)
    THEN {Max(FRound(FMul(F(k), Unwrap(cfg.twinkle_ratio))), 1)}
    ELSE IF IsSome(cfg.min_twinkle_count)
    THEN {Min(Unwrap(cfg.min_twinkle_count), k)}
    ELSE IF IsSome(cfg.max_twinkle_count)
    THEN {Min(Unwrap(cfg.max_twinkle_count), k)}
    ELSE {FRound(FMul(F(k), <<3, 10>>))}

\* twinkle_states.retain(..): age every slot, drop those past phase 1
RetainAged(states) ==
    LET aged(p) == FAdd(states[p].phase, FDiv(F(1), F(states[p].duration)))
        kept == {p \in DOMAIN states : FLe(aged(p), F(1))}
    IN  [p \in kept |-> [states[p] EXCEPT !.phase = aged(p)]]

\* positions of `available_positions`, computed once before the insert loop
available_positions(states, periods) ==
    SelectSeq(periods, LAMBDA pos : pos \notin DOMAIN states)

\* one iteration of the insert loop draws an index into available_positions,
\* a duration (rng.gen_range(20.0..60.0)) and a pause (rng.gen_range(0.1..0.2))
TwinkleDraws(r, available) ==
    [index : 1..Len(available), duration : r.duration, pause_duration : r.pause_duration]

\* an insert that keys the slot by the drawn index, not by the position there
InsertTwinkleByIndex(states, pos, draw) ==
    [p \in DOMAIN states \cup {draw.index - 1} |->
        IF p = draw.index - 1
        THEN [phase |-> F(0), duration |-> draw.duration,
              pause_duration |-> draw.pause_duration]
        ELSE states[p]]

InsertTwinkle(states, pos, draw) ==
    [p \in DOMAIN states \cup {pos} |->
        IF p = pos
        THEN [phase |-> F(0), duration |-> draw.duration,
              pause_duration |-> draw.pause_duration]
        ELSE states[p]]

\* `for _ in 0..new_twinkles_needed`: draws[n] is the n-th iteration's draw
RECURSIVE InsertLoop(_, _, _, _)
InsertLoop(states, available, draws, n) ==
    IF n > Len(draws) THEN states
    ELSE InsertLoop(InsertTwinkle(states, available[draws[n].index], draws[n]),
                    available, draws, n + 1)

\* number of iterations of the insert loop that draw
new_twinkles_needed(states, available, twinkle_count) ==
    IF Cardinality(DOMAIN states) < twinkle_count /\ available # <<>>
    THEN twinkle_count - Cardinality(DOMAIN states)
    ELSE 0

twinkle_char_op(cfg, states, i, ch) ==
    IF i \in DOMAIN states
    THEN LET eased_progress ==
                calculate_three_phase_progress(states[i].phase, states[i].pause_duration,
                                               cfg.easing)
         IN  PrintCh(twinkle_blend_colors(cfg.base_color, cfg.twinkle_color, eased_progress),
                     get_twinkle_char(eased_progress, cfg.star_mode))
    ELSE PrintCh(cfg.base_color, ch)

TwinkleFrameOps(cfg, t, states) ==
    <<MoveToColumn>>
    \o [i \in 1..Len(t) |-> twinkle_char_op(cfg, states, i - 1, t[i])]
    \o <<ResetColor, Flush, Sleep("frame", cfg.speed)>>

(***************************************************************************)
(* Inputs: command line and stdin.                                         *)
(***************************************************************************)
Commands == {"Shine", "Shine2d", "Twinkle"}

DefaultConfig ==
    [base_color |-> Rgb(255, 0, 0), shine_color |-> Rgb(255, 255, 255),
     twinkle_color |-> Rgb(255, 255, 0),
     speed |-> 1, duration |-> 2, cycles |-> 1,
     easing |-> "Linear", start |-> "Beginning",
     width |-> 2, blur |-> TRUE, padding |-> 1, opacity |-> F(1),
     pause_length |-> None, pause_position |-> Half,
     cycle_pre_delay |-> None, cycle_post_delay |-> None,
     cycle_switchback_delay |-> None,
     centering |-> FALSE, angle |-> 90, terminal_width |-> None,
     twinkle_ratio |-> Some(<<3, 10>>), min_twinkle_count |-> None,
     max_twinkle_count |-> None, twinkling_percentage |-> <<4, 5>>,
     star_mode |-> FALSE]

\* <<speed, duration>> in ms: total_frames is 0, 1, 2 (twice), 3; speed 0
Timings == {<<0, 2>>, <<2, 1>>, <<1, 1>>, <<1, 2>>, <<1, 3>>, <<2, 5>>}

WithTiming(cfg, t, c) == [cfg EXCEPT !.speed = t[1], !.duration = t[2], !.cycles = c]

WithDelays(cfg) ==
    [cfg EXCEPT !.cycle_pre_delay = Some(10), !.cycle_post_delay = Some(20),
                !.cycle_switchback_delay = Some(30), !.pause_length = Some(40)]

Alphabet == {"a", "."}

RECURSIVE SeqsUpTo(_, _)
SeqsUpTo(S, n) ==
    IF n = 0 THEN {<<>>}
    ELSE LET shorter == SeqsUpTo(S, n - 1)
         IN  shorter \cup {Append(q, x) : q \in shorter, x \in S}

Texts == SeqsUpTo(Alphabet, MaxLen)

\* stdin: no line, one line, or two lines
InputLines ==
    {<<>>} \cup {<<t>> : t \in Texts} \cup {<<t, <<"a">>>> : t \in Texts}
    \cup {<<<<>>, <<>>>>}

\* timing, cycle count and delays vary; the sweep's shape is the default
TimedConfigs ==
    {WithTiming(d, t, c) :
        d \in {DefaultConfig, WithDelays(DefaultConfig)},
        t \in Timings, c \in 0..MaxCycles}

\* the sweep's shape varies
ShapedConfigs ==
    {[DefaultConfig EXCEPT !.easing = e, !.start = st, !.blur = bl,
                           !.centering = ce, !.angle = an, !.width = wd,
                           !.duration = 3, !.cycle_switchback_delay = Some(30),
                           !.pause_length = Some(40)] :
        e \in EasingFunction, st \in {"Beginning", "End"}, bl \in BOOLEAN,
        ce \in BOOLEAN, an \in {0, 90}, wd \in {1, 2}}

\* the twinkle count's sources vary
CountedConfigs ==
    {[DefaultConfig EXCEPT !.twinkle_ratio = r, !.min_twinkle_count = mn,
                           !.max_twinkle_count = mx, !.twinkling_percentage = tp,
                           !.star_mode = sm] :
        r \in {None, Some(F(2))}, mn \in {None, Some(1), Some(2)},
        mx \in {None, Some(1), Some(3)}, tp \in {F(0), F(1)}, sm \in BOOLEAN}

SpecInputs ==
    (Commands \X TimedConfigs \X InputLines)
    \cup ({"Shine", "Shine2d"} \X ShapedConfigs \X {<<<<"a", "a">>>>, <<<<"a">>, <<"a", "a">>>>})
    \cup ({"Twinkle"} \X CountedConfigs \X {<<<<".", ".">>>>})

\* samples of the random source: duration in [20, 60), pause in [0.1, 0.2)
CoarseRng == [duration |-> {20}, pause_duration |-> {<<1, 10>>}]
FineRng == [duration |-> {20, 59}, pause_duration |-> {<<1, 10>>, <<3, 20>>}]

(***************************************************************************)
(* The program.                                                            *)
(***************************************************************************)
Idle ==
    /\ pc = "main" /\ line = 0 /\ text = <<>> /\ total_frames = 0
    /\ cycle = 0 /\ frame = 0 /\ twinkle_states = <<>>
    /\ ops = <<>> /\ trace = <<>> /\ history = <<>> /\ exit = "running"

Init ==
    /\ \E i \in SpecInputs : command = i[1] /\ config = i[2] /\ input_lines = i[3]
    /\ rng = CoarseRng
    /\ Idle
    /\ blend_in = <<>> /\ blend_out = <<>>
    /\ sample_in = <<>> /\ sample_out = <<>>

Inputs == <<command, config, input_lines, rng, blend_in, blend_out, sample_in, sample_out>>
Locals == <<total_frames, cycle, frame, twinkle_states>>

\* input_text of Commands::Shine2d: the lines joined by '\n'
RECURSIVE JoinLines(_, _)
JoinLines(ls, i) ==
    IF i > Len(ls) THEN <<>>
    ELSE (IF i > 1 THEN <<"\n">> ELSE <<>>) \o ls[i] \o JoinLines(ls, i + 1)

\* main: `for line in &input_lines { apply_.._effect(line, ..)?; }`, and the
\* single call of apply_shine2d_effect on the joined lines
MainCall ==
    /\ pc = "main" /\ exit = "running"
    /\ IF command = "Shine2d" THEN line = 0 ELSE line < Len(input_lines)
    /\ text' = IF command = "Shine2d" THEN JoinLines(input_lines, 1)
                ELSE input_lines[line + 1]
    /\ line' = line + 1
    /\ pc' = "enter"
    /\ trace' = <<>>
    /\ UNCHANGED <<Inputs, Locals, ops, history, exit>>

\* main: `Ok(())` after the last call
MainOk ==
    /\ pc = "main" /\ exit = "running"
    /\ IF command = "Shine2d" THEN line = 1 ELSE line = Len(input_lines)
    /\ pc' = "done"
    /\ exit' = "success"
    /\ UNCHANGED <<Inputs, Locals, line, text, ops, trace, history>>

\* an early return that looks at the text only, not at the grid
DegenerateEmptyTextOnly(cmd, cfg, t) ==
    CASE cmd = "Shine" -> t = <<>>
      [] cmd = "Shine2d" -> t = <<>>
      [] cmd = "Twinkle" -> t = <<>> \/ period_positions(t) = <<>>

\* the text the renderer does not animate: what it prints instead
Degenerate(cmd, cfg, t) ==
    CASE cmd = "Shine" -> t = <<>>
      [] cmd = "Shine2d" ->
            \/ t = <<>>
            \/ Len(Shine2dGrid(cfg, t)) = 0
            \/ grid_max_width(Shine2dGrid(cfg, t)) = 0
      [] cmd = "Twinkle" -> t = <<>> \/ period_positions(t) = <<>>

DegenerateOps(cmd, cfg, t) ==
    IF cmd = "Twinkle" /\ t # <<>>
    THEN <<PrintText(cfg.base_color, t), Println>>
    ELSE <<Println>>

\* the renderers up to the cycle loop: the early returns on degenerate
\* text, then total_frames, then the cursor is hidden
EnterDegenerate ==
    /\ pc = "enter"
    /\ Degenerate(command, config, text)
    /\ ops' = DegenerateOps(command, config, text)
    /\ pc' = "return"
    /\ UNCHANGED <<Inputs, Locals, line, text, trace, history, exit>>

\* `config.duration / config.speed` with speed = 0: attempt to divide by zero
EnterDivideByZero ==
    /\ pc = "enter"
    /\ ~Degenerate(command, config, text)
    /\ config.speed = 0
    /\ pc' = "done"
    /\ exit' = "panic"
    /\ history' = Append(history, [text |-> text, ret |-> "panic", trace |-> trace,
                                    failed |-> <<"divide by zero">>])
    /\ UNCHANGED <<Inputs, Locals, line, text, ops, trace>>

HideOp(cmd, cfg) ==
    CASE cmd = "Shine" -> ClearHide(cfg.centering)
      [] cmd = "Shine2d" -> SavePositionHide
      [] cmd = "Twinkle" -> ClearHide(FALSE)

Enter ==
    /\ pc = "enter"
    /\ ~Degenerate(command, config, text)
    /\ config.speed # 0
    /\ total_frames' = TotalFrames(config)
    /\ twinkle_states' = <<>>
    /\ ops' = <<HideOp(command, config)>>
    /\ cycle' = 0
    /\ frame' = 0
    /\ pc' = "cycle"
    /\ UNCHANGED <<Inputs, line, text, trace, history, exit>>

\* `for cycle in 0..cycles_to_run`: the pre-cycle delay, then the frame loop;
\* after the last value of the range, the code after the loop.
\* Of a run with cycles = 0 the first MaxCycles cycles are explored.
CycleHead ==
    /\ pc = "cycle" /\ ops = <<>>
    /\ IF cycle < cycles_to_run(config)
       THEN /\ cycle < MaxCycles
            /\ ops' = IF command = "Twinkle" THEN <<>>
                       ELSE SleepIf(TRUE, "pre", config.cycle_pre_delay)
            /\ pc' = "frame"
       ELSE /\ ops' = <<>>
            /\ pc' = "epilogue"
    /\ frame' = 0
    /\ UNCHANGED <<Inputs, total_frames, cycle, twinkle_states, line, text, trace,
                   history, exit>>

\* `for frame in 0..total_frames` of the two sweeps: delays and drawing
SweepFrame ==
    /\ pc = "frame" /\ ops = <<>>
    /\ command \in {"Shine", "Shine2d"}
    /\ frame < total_frames
    /\ ops' = IF command = "Shine"
               THEN ShineFrameOps(config, text, frame, total_frames)
               ELSE Shine2dFrameOps(config, Shine2dGrid(config, text), frame, total_frames)
    /\ frame' = frame + 1
    /\ UNCHANGED <<Inputs, total_frames, cycle, twinkle_states, pc, line, text, trace,
                   history, exit>>

\* an idle frame that still ages the slots
TwinkleFrameIdleAges ==
    /\ pc = "frame" /\ ops = <<>>
    /\ command = "Twinkle"
    /\ frame < total_frames
    /\ FALSE \in ShouldTwinkleOutcomes(config)
    /\ twinkle_states' = RetainAged(twinkle_states)
    /\ ops' = TwinkleFrameOps(config, text, twinkle_states')
    /\ frame' = frame + 1
    /\ UNCHANGED <<Inputs, total_frames, cycle, pc, line, text, trace, history, exit>>

\* a twinkle frame that leaves the slots alone
TwinkleFrameIdle ==
    /\ pc = "frame" /\ ops = <<>>
    /\ command = "Twinkle"
    /\ frame < total_frames
    /\ FALSE \in ShouldTwinkleOutcomes(config)
    /\ ops' = TwinkleFrameOps(config, text, twinkle_states)
    /\ frame' = frame + 1
    /\ UNCHANGED <<Inputs, total_frames, cycle, twinkle_states, pc, line, text, trace,
                   history, exit>>

\* a twinkle frame that updates the slots: count, ageing, top-up, drawing
TwinkleFrameUpdate ==
    /\ pc = "frame" /\ ops = <<>>
    /\ command = "Twinkle"
    /\ frame < total_frames
    /\ TRUE \in ShouldTwinkleOutcomes(config)
    /\ LET periods == period_positions(text)
       IN  \E twinkle_count \in TwinkleCounts(config, Len(periods)) :
             LET retained == RetainAged(twinkle_states)
                 available == available_positions(retained, periods)
                 needed == new_twinkles_needed(retained, available, twinkle_count)
             IN  \E draws \in [1..needed -> TwinkleDraws(rng, available)] :
                   /\ twinkle_states' = InsertLoop(retained, available, draws, 1)
                   /\ ops' = TwinkleFrameOps(config, text, twinkle_states')
    /\ frame' = frame + 1
    /\ UNCHANGED <<Inputs, total_frames, cycle, pc, line, text, trace, history, exit>>

\* rng.gen_range on an empty range: the thread panics
TwinkleFramePanic ==
    /\ pc = "frame" /\ ops = <<>>
    /\ command = "Twinkle"
    /\ frame < total_frames
    /\ TRUE \in ShouldTwinkleOutcomes(config)
    /\ TwinkleRangeEmpty(config, Len(period_positions(text)))
    /\ pc' = "done"
    /\ exit' = "panic"
    /\ history' = Append(history, [text |-> text, ret |-> "panic", trace |-> trace,
                                    failed |-> <<"empty range">>])
    /\ UNCHANGED <<Inputs, Locals, line, text, ops, trace>>

\* a loop end that breaks on the last cycle before the post-cycle delay
CycleTailBreaksFirst ==
    /\ pc = "frame" /\ ops = <<>>
    /\ frame >= total_frames
    /\ IF config.cycles > 0 /\ cycle + 1 = cycles_to_run(config)
       THEN pc' = "epilogue" /\ cycle' = cycle /\ ops' = <<>>
       ELSE /\ pc' = "cycle" /\ cycle' = cycle + 1
            /\ ops' = IF command = "Twinkle" THEN <<>>
                       ELSE SleepIf(TRUE, "post", config.cycle_post_delay)
    /\ UNCHANGED <<Inputs, total_frames, frame, twinkle_states, line, text, trace,
                   history, exit>>

\* end of the frame loop: post-cycle delay, then the break on the last cycle
CycleTail ==
    /\ pc = "frame" /\ ops = <<>>
    /\ frame >= total_frames
    /\ ops' = IF command = "Twinkle" THEN <<>>
               ELSE SleepIf(TRUE, "post", config.cycle_post_delay)
    /\ IF config.cycles > 0 /\ cycle + 1 = cycles_to_run(config)
       THEN pc' = "epilogue" /\ cycle' = cycle
       ELSE pc' = "cycle" /\ cycle' = cycle + 1
    /\ UNCHANGED <<Inputs, total_frames, frame, twinkle_states, line, text, trace,
                   history, exit>>

\* a return that leaves the cursor hidden
EpilogueWithoutShow ==
    /\ pc = "epilogue" /\ ops = <<>>
    /\ ops' = <<Println>>
    /\ pc' = "return"
    /\ UNCHANGED <<Inputs, Locals, line, text, trace, history, exit>>

\* after the loop: execute!(stdout, cursor::Show)?; println!(); Ok(())
Epilogue ==
    /\ pc = "epilogue" /\ ops = <<>>
    /\ ops' = <<Show, Println>>
    /\ pc' = "return"
    /\ UNCHANGED <<Inputs, Locals, line, text, trace, history, exit>>

\* the renderer returns Ok(()) to main
ReturnOk ==
    /\ pc = "return" /\ ops = <<>>
    /\ history' = Append(history, [text |-> text, ret |-> "Ok", trace |-> trace,
                                    failed |-> <<>>])
    /\ pc' = "main"
    /\ total_frames' = 0 /\ cycle' = 0 /\ frame' = 0 /\ twinkle_states' = <<>>
    /\ UNCHANGED <<Inputs, line, text, ops, trace, exit>>

\* the next output operation succeeds
Step ==
    /\ ops # <<>> /\ exit = "running"
    /\ trace' = Append(trace, Head(ops))
    /\ ops' = Tail(ops)
    /\ UNCHANGED <<Inputs, Locals, pc, line, text, history, exit>>

\* execute! or flush fails: `?` returns the error from the renderer, and
\* main's `?` returns it from main
StepFail ==
    /\ ops # <<>> /\ exit = "running"
    /\ Fallible(Head(ops))
    /\ history' = Append(history, [text |-> text, ret |-> "Err", trace |-> trace,
                                    failed |-> <<Head(ops).op>>])
    /\ ops' = <<>>
    /\ pc' = "done"
    /\ exit' = "failure"
    /\ UNCHANGED <<Inputs, Locals, line, text, trace>>

\* println! fails: it panics ("failed printing to stdout")
StepPanic ==
    /\ ops # <<>> /\ exit = "running"
    /\ Panics(Head(ops))
    /\ history' = Append(history, [text |-> text, ret |-> "panic", trace |-> trace,
                                    failed |-> <<Head(ops).op>>])
    /\ ops' = <<>>
    /\ pc' = "done"
    /\ exit' = "panic"
    /\ UNCHANGED <<Inputs, Locals, line, text, trace>>

Next ==
    \/ MainCall
    \/ MainOk
    \/ EnterDegenerate
    \/ EnterDivideByZero
    \/ Enter
    \/ CycleHead
    \/ SweepFrame
    \/ TwinkleFrameIdle
    \/ TwinkleFrameUpdate
    \/ TwinkleFramePanic
    \/ CycleTail
    \/ Epilogue
    \/ ReturnOk
    \/ Step
    \/ StepFail
    \/ StepPanic

Spec == Init /\ [][Next]_vars

(***************************************************************************)
(* apply_twinkle_effect on its own: texts with anchors, the sources of the *)
(* twinkle count, and long runs in which slots expire.  A ratio above 1 is *)
(* a TwinkleConfig of a library caller: main clamps the ratio to [0, 1].   *)
(***************************************************************************)
TwinkleTexts ==
    {t \in SeqsUpTo(Alphabet, MaxLen) : period_positions(t) # <<>>}
    \cup {<<".", ".", ".">>}

\* <<min_twinkle_count, max_twinkle_count>>, both set; <<2, 1>> is an empty range
TwinkleRanges == {<<1, 3>>, <<2, 3>>, <<1, 1>>, <<3, 3>>, <<2, 1>>}

TwinklePercentages == {F(0), <<4, 5>>, F(1)}

TwinkleBase == [DefaultConfig EXCEPT !.speed = 1, !.duration = 3, !.cycles = 1]

RangedConfigs ==
    {[TwinkleBase EXCEPT !.min_twinkle_count = Some(r[1]),
                         !.max_twinkle_count = Some(r[2]),
                         !.twinkling_percentage = tp] :
        r \in TwinkleRanges, tp \in TwinklePercentages}

RatioConfigs ==
    {[TwinkleBase EXCEPT !.twinkle_ratio = r, !.min_twinkle_count = mm[1],
                         !.max_twinkle_count = mm[2], !.twinkling_percentage = tp] :
        r \in {None, Some(<<3, 10>>), Some(F(1)), Some(F(2))},
        mm \in {<<None, None>>, <<Some(4), None>>, <<None, Some(4)>>},
        tp \in TwinklePercentages}

\* every frame updates, and the run outlasts a slot of duration 20
ExpiryConfigs ==
    {[TwinkleBase EXCEPT !.duration = 22, !.twinkle_ratio = Some(F(1)),
                         !.twinkling_percentage = F(1), !.cycles = c] :
        c \in 1..MaxCycles}

TwinkleInputs ==
    (RangedConfigs \X TwinkleTexts \X {FineRng})
    \cup (RatioConfigs \X TwinkleTexts \X {CoarseRng})
    \cup (ExpiryConfigs \X {<<".">>, <<"a", ".">>} \X {CoarseRng})

TwinkleInit ==
    /\ \E i \in TwinkleInputs : config = i[1] /\ input_lines = <<i[2]>> /\ rng = i[3]
    /\ command = "Twinkle"
    /\ Idle
    /\ blend_in = <<>> /\ blend_out = <<>>
    /\ sample_in = <<>> /\ sample_out = <<>>

TwinkleNext ==
    \/ MainCall
    \/ MainOk
    \/ Enter
    \/ CycleHead
    \/ TwinkleFrameIdle
    \/ TwinkleFrameUpdate
    \/ TwinkleFramePanic
    \/ CycleTail
    \/ Epilogue
    \/ ReturnOk
    \/ Step
    \/ StepFail
    \/ StepPanic

TwinkleSpec == TwinkleInit /\ [][TwinkleNext]_vars

(***************************************************************************)
(* blend_colors on its own: inputs drawn, the three copies applied.        *)
(* The intensities are multiples of 1/8, for which every f32 operation of  *)
(* blend_colors is exact.                                                  *)
(***************************************************************************)
BlendColors ==
    {Rgb(0, 0, 0), Rgb(255, 255, 255), Rgb(100, 100, 100), Rgb(200, 200, 200),
     Rgb(255, 0, 0), Rgb(10, 128, 250), NamedColor("Reset")}

BlendIntensities ==
    {<<-1, 2>>, <<-1, 8>>, F(0), <<1, 8>>, <<1, 4>>, <<1, 2>>, <<3, 4>>, <<7, 8>>,
     F(1), <<9, 8>>, <<3, 2>>}

BlendInit ==
    /\ blend_in \in [base : BlendColors, target : BlendColors, intensity : BlendIntensities]
    /\ blend_out = <<>>
    /\ sample_in = <<>> /\ sample_out = <<>>
    /\ command = "Shine" /\ config = DefaultConfig /\ input_lines = <<>>
    /\ rng = CoarseRng
    /\ pc = "blend" /\ line = 0 /\ text = <<>> /\ total_frames = 0
    /\ cycle = 0 /\ frame = 0 /\ twinkle_states = <<>>
    /\ ops = <<>> /\ trace = <<>> /\ history = <<>> /\ exit = "running"

BlendApply ==
    /\ pc = "blend" /\ blend_out = <<>>
    /\ blend_out' =
          [shine |-> shine_blend_colors(blend_in.base, blend_in.target, blend_in.intensity),
           shine2d |-> shine2d_blend_colors(blend_in.base, blend_in.target, blend_in.intensity),
           twinkle |-> twinkle_blend_colors(blend_in.base, blend_in.target, blend_in.intensity)]
    /\ UNCHANGED <<command, config, input_lines, rng, blend_in, pc, line, text,
                   total_frames, cycle, frame, twinkle_states, ops, trace, history, exit,
                   sample_in, sample_out>>

BlendSpec == BlendInit /\ [][BlendApply]_vars

(***************************************************************************)
(* Reading a call's trace.                                                 *)
(***************************************************************************)
\* the operation that starts a frame: the cursor is put back to the start
IsFrameStart(o) ==
    o.op = "Move" /\ (command = "Shine2d" => o.what = <<"RestorePosition">>)
IsFlush(o) == o.op = "Flush"
IsPacing(o) == o.op = "sleep" /\ o.what = <<"frame">>
IsSleep(o) == o.op = "sleep"
IsFrameMark(o) == IsFrameStart(o) \/ IsFlush(o) \/ IsPacing(o)

FrameStarts(tr) == Cardinality({i \in 1..Len(tr) : IsFrameStart(tr[i])})
Sleeps(tr) == Cardinality({i \in 1..Len(tr) : IsSleep(tr[i])})
FrameMarks(tr) == SelectSeq(tr, IsFrameMark)

\* text made of '\n' only: the grid has no row, or only empty rows
OnlyNewlines(t) == \A i \in 1..Len(t) : t[i] = "\n"
HasPeriod(t) == \E i \in 1..Len(t) : t[i] = "."

\* a text the renderer animates
Animated(t) ==
    /\ t # <<>>
    /\ command = "Shine2d" => ~OnlyNewlines(t)
    /\ command = "Twinkle" => HasPeriod(t)

\* the calls made so far: the finished ones, and the one running
Finished == {history[i] : i \in 1..Len(history)}

(***************************************************************************)
(* C1.  With cycles = n > 0 and total_frames = duration / speed >= 1, a    *)
(* call on animated text that meets no I/O failure draws exactly           *)
(* n * total_frames frames, each followed by one flush and then one pacing *)
(* sleep of `speed` ms, then shows the cursor, prints the newline and      *)
(* returns Ok; and every such run ends.                                    *)
(***************************************************************************)
C1_Expected == config.cycles * (config.duration \div config.speed)

C1_Applies ==
    config.cycles > 0 /\ config.speed > 0 /\ config.duration \div config.speed >= 1

C1_CallDrawsAllFrames(h) ==
    LET marks == FrameMarks(h.trace)
        n == Len(h.trace)
    IN  /\ FrameStarts(h.trace) = C1_Expected
        /\ Len(marks) = 3 * C1_Expected
        /\ \A j \in 1..C1_Expected :
              /\ IsFrameStart(marks[3 * j - 2])
              /\ IsFlush(marks[3 * j - 1])
              /\ IsPacing(marks[3 * j]) /\ marks[3 * j].ms = config.speed
        /\ \A i \in 1..n : IsFlush(h.trace[i]) => i < n /\ IsPacing(h.trace[i + 1])
        /\ n >= 2 /\ h.trace[n - 1] = Show /\ h.trace[n] = Println
        /\ \A i \in 1..(n - 2) : h.trace[i].op \notin {"Show", "println"}

C1_FramesDrawn ==
    C1_Applies =>
        \A h \in Finished : (h.ret = "Ok" /\ Animated(h.text)) => C1_CallDrawsAllFrames(h)

\* what is left to do, largest unit first: calls not started, the stage of
\* the running call, its cycles, its frames, its issued operations
C1_Stage ==
    CASE pc = "enter" -> 5
      [] pc \in {"cycle", "frame"} -> 4
      [] pc = "epilogue" -> 3
      [] pc = "return" -> 2
      [] pc = "main" -> 1
      [] OTHER -> 0

C1_Rank ==
    <<(IF command = "Shine2d" THEN 1 ELSE Len(input_lines)) - line,
      C1_Stage,
      config.cycles - cycle,
      IF pc = "cycle" THEN total_frames + 1 ELSE total_frames - frame,
      Len(ops)>>

RECURSIVE LexLess(_, _, _)
LexLess(a, b, i) ==
    /\ i <= Len(a)
    /\ \/ a[i] < b[i]
       \/ a[i] = b[i] /\ LexLess(a, b, i + 1)

C2_Applies ==
    config.cycles = 0 /\ config.speed > 0 /\ config.duration \div config.speed >= 1

HasShow(os) == \E i \in 1..Len(os) : os[i].op = "Show"

C2_LoopNotLeft ==
    C2_Applies =>
        /\ \A h \in Finished : Animated(h.text) => h.ret # "Ok" /\ ~HasShow(h.trace)
        /\ Animated(text) =>
              /\ pc \in {"enter", "cycle", "frame", "done"}
              /\ pc = "done" => exit \in {"failure", "panic"}
              /\ ~HasShow(trace) /\ ~HasShow(ops)
              \* every cycle completed so far has drawn all its frames
              /\ (pc = "cycle" /\ ops = <<>>) =>
                    FrameStarts(trace) = cycle * (config.duration \div config.speed)

C3_AtLeastOneFrame ==
    /\ (config.speed > 0 /\ pc \in {"cycle", "frame", "epilogue"})
          => total_frames = Max(1, config.duration \div config.speed)
    /\ (config.speed > 0 /\ config.duration < config.speed /\ config.cycles > 0) =>
          \A h \in Finished :
              (h.ret = "Ok" /\ Animated(h.text)) => FrameStarts(h.trace) = config.cycles

C3_Witness ==
    /\ config.speed = 2 /\ config.duration = 1 /\ config.cycles = 1
    /\ command = "Shine" /\ Len(history) = 1
    /\ history[1].text = <<"a">> /\ history[1].ret = "Ok"
    /\ FrameStarts(history[1].trace) = 0 /\ Sleeps(history[1].trace) = 0

(***************************************************************************)
(* C4.  speed = 0.                                                         *)
(***************************************************************************)
\* the call met no failing output operation
NoIoFailure(h) == h.failed \in {<<>>, <<"divide by zero">>, <<"empty range">>}

\* C4: with speed = 0 every call on non-empty text returns an error before any
\* operation is issued, and the program does not panic.
C4_SpeedZeroRejected ==
    config.speed = 0 =>
        \A h \in Finished :
            (h.text # <<>> /\ NoIoFailure(h)) => h.ret = "Err" /\ h.trace = <<>>

C4_Witness ==
    /\ config.speed = 0 /\ command = "Shine" /\ exit = "panic"
    /\ Len(history) = 1 /\ history[1].text = <<"a">>
    /\ history[1].failed = <<"divide by zero">> /\ history[1].trace = <<>>

(***************************************************************************)
(* C5.  Degenerate text.                                                   *)
(***************************************************************************)
\* empty text, or 2D text whose grid has no row or only empty rows
C5_Applies(t) ==
    \/ t = <<>>
    \/ /\ command = "Shine2d"
       /\ \A y \in 1..Len(Shine2dGrid(config, t)) : Shine2dGrid(config, t)[y] = <<>>

\* C5: a call on degenerate text whose println succeeds returns Ok having
\* executed the println and nothing else (no hide, clear, frame or sleep), for
\* every configuration; it never returns an error and never enters the loop.
C5_DegenerateIsBlankLine ==
    /\ \A h \in Finished :
          C5_Applies(h.text) =>
              /\ h.failed \in {<<>>, <<"println">>}
              /\ h.failed = <<>> => h.ret = "Ok" /\ h.trace = <<Println>>
              /\ h.failed # <<>> => h.ret = "panic" /\ h.trace = <<>>
    /\ C5_Applies(text) =>
          /\ pc \in {"main", "enter", "return", "done"}
          /\ trace \in {<<>>, <<Println>>}
          /\ ops \in {<<>>, <<Println>>}

C5_Witness ==
    /\ command = "Shine2d" /\ exit = "success" /\ Len(history) = 1
    /\ history[1].text = <<"\n">> /\ history[1].ret = "Ok"
    /\ history[1].trace = <<Println>>

(***************************************************************************)
(* C6.  A failing output operation.                                        *)
(***************************************************************************)
\* C6: a call in which an output operation failed returned Err to main, which
\* exits with it; no later line is rendered.
C6_FailureReturned ==
    \A h \in Finished :
        ~NoIoFailure(h) => h.ret = "Err" /\ exit = "failure" /\ h = history[Len(history)]

C6_Witness ==
    /\ exit = "panic" /\ command = "Shine" /\ Len(history) = 1
    /\ history[1].text = <<>> /\ history[1].failed = <<"println">>
    /\ history[1].ret = "panic"

(***************************************************************************)
(* C7.  Twinkle on text without '.'.                                       *)
(***************************************************************************)
C7_Applies(t) == command = "Twinkle" /\ t # <<>> /\ ~HasPeriod(t)

\* C7: twinkle on non-empty text without '.' whose output succeeds executes
\* the text once in the base colour and then the newline, and returns Ok; the
\* call never reaches the cycle loop, never sleeps and never creates a slot.
C7_PrintedOnce ==
    /\ \A h \in Finished :
          C7_Applies(h.text) =>
              /\ h.failed \in {<<>>, <<"PrintText">>, <<"println">>}
              /\ h.failed = <<>> =>
                    /\ h.ret = "Ok"
                    /\ h.trace = <<PrintText(config.base_color, h.text), Println>>
    /\ C7_Applies(text) =>
          /\ pc \in {"main", "enter", "return", "done"}
          /\ twinkle_states = <<>>
          /\ Sleeps(trace) = 0 /\ Sleeps(ops) = 0
          /\ FrameStarts(trace) = 0 /\ FrameStarts(ops) = 0

C7_Witness ==
    /\ command = "Twinkle" /\ config.speed = 0 /\ exit = "success"
    /\ Len(history) = 1 /\ history[1].text = <<"a", "a">> /\ history[1].ret = "Ok"
    /\ history[1].trace = <<PrintText(config.base_color, <<"a", "a">>), Println>>

(***************************************************************************)
(* C8.  The slot count between min_twinkle_count and max_twinkle_count.    *)
(***************************************************************************)
Anchors(t) == {i - 1 : i \in {j \in 1..Len(t) : t[j] = "."}}

C8_Applies ==
    /\ command = "Twinkle"
    /\ IsSome(config.min_twinkle_count) /\ IsSome(config.max_twinkle_count)
    /\ 1 <= Unwrap(config.min_twinkle_count)
    /\ Unwrap(config.min_twinkle_count) <= Unwrap(config.max_twinkle_count)
    /\ Cardinality(Anchors(text)) >= Unwrap(config.max_twinkle_count)

\* C8: with 1 <= m <= M <= k, once a frame of the cycle has been drawn the
\* number of active slots is within [m, M].
C8_SlotCountInRange ==
    (C8_Applies /\ pc = "frame" /\ frame >= 1) =>
        /\ Cardinality(DOMAIN twinkle_states) >= Unwrap(config.min_twinkle_count)
        /\ Cardinality(DOMAIN twinkle_states) <= Unwrap(config.max_twinkle_count)

C8_Witness ==
    /\ C8_Applies /\ text = <<".", ".", ".">>
    /\ config.min_twinkle_count = Some(1) /\ config.max_twinkle_count = Some(3)
    /\ config.twinkling_percentage = <<4, 5>>
    /\ pc = "frame" /\ frame = 1 /\ ops = <<>> /\ exit = "running"
    /\ twinkle_states = <<>>
    /\ FrameStarts(trace) = 1

(***************************************************************************)
(* C9.  Slots sit on anchors.                                              *)
(***************************************************************************)
\* C9: the keys of the slot map are positions of '.' characters of the text,
\* so there are never more slots than anchors.
C9_SlotsOnAnchors ==
    /\ DOMAIN twinkle_states \subseteq Anchors(text)
    /\ Cardinality(DOMAIN twinkle_states) <= Cardinality(Anchors(text))

\* a target count of 6 on 3 anchors; every anchor holds a slot
C9_Witness ==
    /\ text = <<".", ".", ".">> /\ config.twinkle_ratio = Some(F(2))
    /\ config.min_twinkle_count = None /\ config.max_twinkle_count = None
    /\ pc = "frame" /\ frame = 2
    /\ DOMAIN twinkle_states = {0, 1, 2}

(***************************************************************************)
(* C10.  blend_colors.  The reference is computed on integers:             *)
(* trunc((b * (d - n) + s * n) / d) for the clamped intensity n / d.       *)
(***************************************************************************)
C10_Clamped(i) ==
    IF i[1] <= 0 THEN <<0, 1>> ELSE IF i[1] >= i[2] THEN <<1, 1>> ELSE i

C10_Channel(b, s, i) ==
    LET c == C10_Clamped(i) IN (b * (c[2] - c[1]) + s * c[1]) \div c[2]

C10_Reference(base, target, i) ==
    Rgb(C10_Channel(base.r, target.r, i), C10_Channel(base.g, target.g, i),
        C10_Channel(base.b, target.b, i))

\* C10: the three copies of blend_colors agree; on Rgb colours the result is,
\* per channel, the truncation of base * (1 - c) + target * c for the clamped
\* intensity c: base for i <= 0, target for i >= 1, and (127, 127, 127) half
\* way between black and white.
C10_BlendTruncates ==
    blend_out # <<>> =>
        /\ blend_out.shine = blend_out.shine2d
        /\ blend_out.shine = blend_out.twinkle
        /\ (blend_in.base.kind = "Rgb" /\ blend_in.target.kind = "Rgb") =>
              /\ blend_out.shine =
                    C10_Reference(blend_in.base, blend_in.target, blend_in.intensity)
              /\ blend_in.intensity[1] <= 0 => blend_out.shine = blend_in.base
              /\ blend_in.intensity[1] >= blend_in.intensity[2] =>
                    blend_out.shine = blend_in.target
        /\ (/\ blend_in.base = Rgb(0, 0, 0) /\ blend_in.target = Rgb(255, 255, 255)
            /\ blend_in.intensity = Half) => blend_out.shine = Rgb(127, 127, 127)

C10_Witness ==
    /\ blend_out # <<>>
    /\ blend_in.base = Rgb(0, 0, 0) /\ blend_in.target = Rgb(255, 255, 255)
    /\ blend_in.intensity = Half
    /\ blend_out.twinkle = Rgb(127, 127, 127)

(***************************************************************************)
(* IEEE 754 binary32 (f32), bit-exact, for the values the sweep computes:  *)
(* non-negative, finite, normal.  A value is <<m, e>>, meaning m * 2^e,    *)
(* with m = 0 (zero) or 2^23 <= m < 2^24; <<-1, 0>> is NaN.  Every         *)
(* operation rounds to nearest, ties to even.  Products are formed on      *)
(* 12-bit halves so that no intermediate needs more than 31 bits.          *)
(***************************************************************************)
P2(k) == 2 ^ k

F32Zero == <<0, 0>>
F32NaN == <<-1, 0>>
F32IsNaN(x) == x[1] < 0

\* m * 2^e, 0 <= m < 2^24, brought to 2^23 <= m
RECURSIVE F32Normal(_, _)
F32Normal(m, e) ==
    IF m = 0 THEN F32Zero
    ELSE IF m >= P2(23) THEN <<m, e>>
    ELSE F32Normal(2 * m, e - 1)

\* number of bits of h >= 0
RECURSIVE BitLen(_)
BitLen(h) == IF h = 0 THEN 0 ELSE 1 + BitLen(h \div 2)

\* round to nearest, ties to even: q with remainder r out of d
RoundEven(q, r, d) ==
    IF 2 * r > d \/ (2 * r = d /\ q % 2 = 1) THEN q + 1 ELSE q

\* (hi * 2^24 + lo) * 2^e, 0 <= hi, lo < 2^24, rounded to 24 bits
F32Round48(hi, lo, e) ==
    IF hi = 0 THEN F32Normal(lo, e)
    ELSE LET k == BitLen(hi)
             q == hi * P2(24 - k) + lo \div P2(k)
             m == RoundEven(q, lo % P2(k), P2(k))
         IN  IF m = P2(24) THEN <<P2(23), e + k + 1>> ELSE <<m, e + k>>

\* n / d for integers 0 <= n, 0 < d < 2^6 (a usize `as f32`, divided)
RECURSIVE F32RatioFrom(_, _, _)
F32RatioFrom(n, d, s) ==
    LET scaled == n * P2(s)
    IN  IF scaled \div d >= P2(23)
        THEN LET m == RoundEven(scaled \div d, scaled % d, d)
             IN  IF m = P2(24) THEN <<P2(23), 1 - s>> ELSE <<m, -s>>
        ELSE F32RatioFrom(n, d, s + 1)

F32Ratio(n, d) ==
    IF d = 0 THEN F32NaN
    ELSE IF n = 0 THEN F32Zero
    ELSE IF n \div d >= P2(23) THEN F32NaN
    ELSE F32RatioFrom(n, d, 0)

\* `n as f32` for 0 <= n < 2^23
F32Of(n) == F32Normal(n, 0)

F32Mul(x, y) ==
    IF F32IsNaN(x) \/ F32IsNaN(y) THEN F32NaN
    ELSE IF x[1] = 0 \/ y[1] = 0 THEN F32Zero
    ELSE LET h1 == x[1] \div P2(12)
             l1 == x[1] % P2(12)
             h2 == y[1] \div P2(12)
             l2 == y[1] % P2(12)
             mid == h1 * l2 + l1 * h2
             low == l1 * l2 + (mid % P2(12)) * P2(12)
         IN  F32Round48(h1 * h2 + mid \div P2(12) + low \div P2(24), low % P2(24),
                        x[2] + y[2])

F32Lt(x, y) ==
    /\ ~F32IsNaN(x) /\ ~F32IsNaN(y)
    /\ IF x[1] = 0 THEN y[1] > 0
       ELSE y[1] > 0 /\ (x[2] < y[2] \/ (x[2] = y[2] /\ x[1] < y[1]))
F32Le(x, y) == ~F32IsNaN(x) /\ ~F32IsNaN(y) /\ ~F32Lt(y, x)
F32Ge(x, y) == F32Le(y, x)

\* x + y, x the operand of the larger exponent
F32AddOrdered(x, y) ==
    LET d == x[2] - y[2]
    IN  IF d >= 25 THEN x
        ELSE LET low == (x[1] % P2(24 - d)) * P2(d) + y[1]
             IN  F32Round48(x[1] \div P2(24 - d) + low \div P2(24), low % P2(24), y[2])

F32Add(x, y) ==
    IF F32IsNaN(x) \/ F32IsNaN(y) THEN F32NaN
    ELSE IF x[1] = 0 THEN y
    ELSE IF y[1] = 0 THEN x
    ELSE IF x[2] >= y[2] THEN F32AddOrdered(x, y) ELSE F32AddOrdered(y, x)

\* x - y for x >= y >= 0
F32SubOrdered(x, y) ==
    LET d == x[2] - y[2]
    IN  IF d >= 26 THEN x
        ELSE IF d = 25
        THEN IF x[1] = P2(23) /\ y[1] > P2(23) THEN <<P2(24) - 1, x[2] - 1>> ELSE x
        ELSE LET low == (x[1] % P2(24 - d)) * P2(d) - y[1]
                 borrow == IF low < 0 THEN 1 ELSE 0
             IN  F32Round48(x[1] \div P2(24 - d) - borrow, low + borrow * P2(24), y[2])

\* |x - y|: the sweep subtracts only where the sign is known or dropped
F32AbsDiff(x, y) ==
    IF F32IsNaN(x) \/ F32IsNaN(y) THEN F32NaN
    ELSE IF y[1] = 0 THEN x
    ELSE IF x[1] = 0 THEN y
    ELSE IF F32Lt(x, y) THEN F32SubOrdered(y, x) ELSE F32SubOrdered(x, y)

\* x * 2^k, exact
F32Scale(x, k) == IF x[1] <= 0 THEN x ELSE <<x[1], x[2] + k>>

\* `as isize` of a value >= 0: truncation, NaN becomes 0
F32Trunc(x) ==
    IF x[1] <= 0 THEN 0
    ELSE IF x[2] >= 0 THEN x[1] * P2(x[2])
    ELSE IF x[2] <= -24 THEN 0
    ELSE x[1] \div P2(-x[2])

\* n steps of binary long division of r by d: <<quotient bits, remainder>>
RECURSIVE DivBits(_, _, _, _)
DivBits(r, d, q, n) ==
    IF n = 0 THEN <<q, r>>
    ELSE IF r >= d THEN DivBits(2 * (r - d), d, 2 * q + 1, n - 1)
    ELSE DivBits(2 * r, d, 2 * q, n - 1)

\* x / y for x >= 0, rounded to nearest, ties to even; y = 0 with x = 0 is NaN
F32Div(x, y) ==
    IF F32IsNaN(x) \/ F32IsNaN(y) \/ y[1] = 0 THEN F32NaN
    ELSE IF x[1] = 0 THEN F32Zero
    ELSE LET qr == DivBits(x[1], y[1], 0, 26)
             wide == qr[1] >= P2(25)
             cut == IF wide THEN 4 ELSE 2
             m == qr[1] \div cut
             low == qr[1] % cut
             up == \/ 2 * low > cut
                   \/ (2 * low = cut /\ (qr[2] # 0 \/ m % 2 = 1))
             e == x[2] - y[2] - 25 + (IF wide THEN 2 ELSE 1)
         IN  IF up /\ m + 1 = P2(24) THEN <<P2(23), e + 1>>
             ELSE <<IF up THEN m + 1 ELSE m, e>>

F32One == F32Of(1)
F32Two == F32Of(2)
F32Half == F32Ratio(1, 2)

(***************************************************************************)
(* EasingFunction::apply in f32, for 0 <= t <= 1 (the three copies of      *)
(* shine.rs, shine2d.rs and twinkle.rs are the same text).                 *)
(***************************************************************************)
\* an EaseInOut whose second branch lacks the division by 2
apply_f32_undivided(easing, t) ==
    CASE easing = "Linear" -> t
      [] easing = "EaseIn" -> F32Mul(t, t)
      [] easing = "EaseOut" ->
            F32AbsDiff(F32One, F32Mul(F32AbsDiff(F32One, t), F32AbsDiff(F32One, t)))
      [] easing = "EaseInOut" ->
            IF F32Lt(t, F32Half)
            THEN F32Mul(F32Scale(t, 1), t)
            ELSE LET u == F32AbsDiff(F32Two, F32Scale(t, 1))
                 IN  F32AbsDiff(F32One, F32Mul(u, u))

\* 1.0 - x and -2.0 * t + 2.0 have a non-negative result for 0 <= t <= 1
apply_f32(easing, t) ==
    CASE easing = "Linear" -> t
      [] easing = "EaseIn" -> F32Mul(t, t)
      [] easing = "EaseOut" ->
            F32AbsDiff(F32One, F32Mul(F32AbsDiff(F32One, t), F32AbsDiff(F32One, t)))
      [] easing = "EaseInOut" ->
            IF F32Lt(t, F32Half)
            THEN F32Mul(F32Scale(t, 1), t)
            ELSE LET u == F32AbsDiff(F32Two, F32Scale(t, 1))
                 IN  F32AbsDiff(F32One, F32Scale(F32Mul(u, u), -1))

\* a function applied on its own: nothing of the program runs
SampleIdle ==
    /\ sample_out = <<>>
    /\ pc = "sample" /\ line = 0 /\ text = <<>> /\ total_frames = 0
    /\ cycle = 0 /\ frame = 0 /\ twinkle_states = <<>>
    /\ ops = <<>> /\ trace = <<>> /\ history = <<>> /\ exit = "running"
    /\ command = "Shine" /\ config = DefaultConfig /\ input_lines = <<>>
    /\ rng = CoarseRng /\ blend_in = <<>> /\ blend_out = <<>>

SampleUnchanged ==
    UNCHANGED <<command, config, input_lines, rng, blend_in, blend_out, pc, line, text,
                total_frames, cycle, frame, twinkle_states, ops, trace, history, exit,
                sample_in>>

\* t = i as f32 / steps as f32, i in 0..steps
EasingSteps == {10, 20}

EasingInit ==
    /\ sample_in \in {x \in [easing : EasingFunction, steps : EasingSteps, i : 0..20] :
                        x.i <= x.steps}
    /\ SampleIdle

\* apply at sample i, at the next sample and at the mirrored sample
EasingApply ==
    /\ pc = "sample" /\ sample_out = <<>>
    /\ sample_out' =
          [value |-> apply_f32(sample_in.easing, F32Ratio(sample_in.i, sample_in.steps)),
           next |-> apply_f32(sample_in.easing,
                              F32Ratio(Min(sample_in.i + 1, sample_in.steps), sample_in.steps)),
           mirror |-> apply_f32(sample_in.easing,
                                F32Ratio(sample_in.steps - sample_in.i, sample_in.steps))]
    /\ SampleUnchanged

EasingSpec == EasingInit /\ [][EasingApply]_vars

(***************************************************************************)
(* C11.  The easing curves at the sampled points.                          *)
(***************************************************************************)
\* one unit in the last place of 1.0
F32Epsilon == <<P2(23), -46>>

C11_RangeEndsMonotone ==
    /\ F32Le(F32Zero, sample_out.value) /\ F32Le(sample_out.value, F32One)
    /\ sample_in.i = 0 => sample_out.value = F32Zero
    /\ sample_in.i = sample_in.steps => sample_out.value = F32One
    /\ F32Le(sample_out.value, sample_out.next)
    /\ (sample_in.easing = "EaseInOut" /\ 2 * sample_in.i = sample_in.steps)
          => sample_out.value = F32Half

\* C11 as stated: every easing is within [0, 1], 0 at 0, 1 at 1 and
\* non-decreasing along the samples; EaseInOut is 0.5 at 0.5 and
\* apply(t) + apply(1 - t) is exactly 1.
C11_EasingSymmetricExactly ==
    sample_out # <<>> =>
        /\ C11_RangeEndsMonotone
        /\ sample_in.easing = "EaseInOut"
              => F32Add(sample_out.value, sample_out.mirror) = F32One

\* C11 as it holds: the same, with apply(t) + apply(1 - t) within one unit in
\* the last place of 1.
C11_EasingSymmetricWithinUlp ==
    sample_out # <<>> =>
        /\ C11_RangeEndsMonotone
        /\ sample_in.easing = "EaseInOut"
              => F32Le(F32AbsDiff(F32Add(sample_out.value, sample_out.mirror), F32One),
                       F32Epsilon)

\* t = 0.4: apply(0.4) + apply(0.6) is 1 + 2^-23
C11_Witness ==
    /\ sample_out # <<>>
    /\ sample_in = [easing |-> "EaseInOut", steps |-> 10, i |-> 4]
    /\ F32Add(sample_out.value, sample_out.mirror) = <<P2(23) + 1, -23>>

(***************************************************************************)
(* The frame loop of a sweep on its own, in f32: what one cycle computes   *)
(* on each frame before it draws (shine.rs 114-160; shine2d.rs 211-226 is  *)
(* the same text up to back_and_forth_progress).                           *)
(***************************************************************************)
\* largest total_frames of a cycle applied on its own
MaxFrames == 8

\* the frames of a cycle that never take the second branch of the ping-pong
back_and_forth_never_reverses(eased_progress) == F32Scale(eased_progress, 1)

\* `if eased_progress < 0.5 { eased_progress * 2.0 } else { 2.0 - eased_progress * 2.0 }`
back_and_forth_f32(eased_progress) ==
    IF F32Lt(eased_progress, F32Half)
    THEN F32Scale(eased_progress, 1)
    ELSE F32AbsDiff(F32Two, F32Scale(eased_progress, 1))

\* a position that spans total_range, not total_range - 1
shine_position_full_range(start, back_and_forth, text_len, padding) ==
    LET total_range == text_len + 2 * padding
    IN  IF start = "Beginning"
        THEN F32Trunc(F32Mul(back_and_forth, F32Of(total_range))) - padding
        ELSE F32Trunc(F32Mul(F32AbsDiff(F32One, back_and_forth), F32Of(total_range)))
             - padding

\* `(.. * (total_range as f32 - 1.0)) as isize - config.padding as isize`
shine_position_f32(start, back_and_forth, text_len, padding) ==
    LET total_range == text_len + 2 * padding
    IN  IF start = "Beginning"
        THEN F32Trunc(F32Mul(back_and_forth, F32Of(total_range - 1))) - padding
        ELSE F32Trunc(F32Mul(F32AbsDiff(F32One, back_and_forth), F32Of(total_range - 1)))
             - padding

\* a switchback test that lacks `frame > 0` and looks at the lower half
switchback_below_half(f, prev_progress, eased_progress) ==
    F32Lt(prev_progress, F32Half) /\ F32Lt(eased_progress, F32Half)

\* `frame > 0 && prev_progress < 0.5 && eased_progress >= 0.5`
switchback_f32(f, prev_progress, eased_progress) ==
    f > 0 /\ F32Lt(prev_progress, F32Half) /\ F32Ge(eased_progress, F32Half)

\* `(normalized_position - config.pause_position).abs() < pause_tolerance`
pause_f32(normalized_position, pause_position) ==
    F32Lt(F32AbsDiff(normalized_position, pause_position), F32Ratio(1, 20))

\* one iteration of `for frame in 0..total_frames`, up to the drawing
ShineClock(in, f) ==
    LET progress == F32Ratio(f, in.total_frames - 1)
        eased_progress == apply_f32(in.easing, progress)
        prev_progress ==
            IF f > 0 THEN apply_f32(in.easing, F32Ratio(f - 1, in.total_frames - 1))
            ELSE F32Zero
        crossed == switchback_f32(f, prev_progress, eased_progress)
        back_and_forth == back_and_forth_f32(eased_progress)
        position == shine_position_f32(in.start, back_and_forth, in.text_len, in.padding)
        normalized_position ==
            F32Ratio(position + in.padding, in.text_len + 2 * in.padding)
        paused == pause_f32(normalized_position, in.pause_position)
    IN  [frame |-> f, progress |-> progress, eased_progress |-> eased_progress,
         prev_progress |-> prev_progress,
         back_and_forth_progress |-> back_and_forth,
         shine_position |-> position, normalized_position |-> normalized_position,
         events |-> SleepIf(crossed, "switchback", in.cycle_switchback_delay)
                    \o SleepIf(paused, "pause", in.pause_length)
                    \o <<MoveToColumn>>]

\* <<text_len, padding>>; <<12, 5>> is the 22-step range of -5..16
SweepShapes == {<<1, 0>>, <<2, 1>>, <<3, 2>>, <<5, 1>>, <<10, 5>>, <<12, 5>>}

\* --pause-position as the fraction <<n, d>> its decimal text denotes
SweepPausePositions == {<<0, 1>>, <<1, 4>>, <<1, 2>>, <<11, 20>>, <<1, 1>>}

SweepInputs ==
    {[easing |-> e, start |-> st, total_frames |-> tf, text_len |-> sh[1],
      padding |-> sh[2], pause_arg |-> pp, pause_position |-> F32Ratio(pp[1], pp[2]),
      cycle_switchback_delay |-> d[1], pause_length |-> d[2]] :
        e \in EasingFunction, st \in {"Beginning", "End"}, tf \in 1..MaxFrames,
        sh \in SweepShapes, pp \in SweepPausePositions,
        d \in {<<Some(30), Some(40)>>, <<None, None>>}}

SweepInit == sample_in \in SweepInputs /\ SampleIdle

\* `for frame in 0..total_frames`: the frames of one cycle, in order
SweepCycle ==
    /\ pc = "sample" /\ sample_out = <<>>
    /\ sample_out' = [j \in 1..sample_in.total_frames |-> ShineClock(sample_in, j - 1)]
    /\ pc' = "sampled"
    /\ UNCHANGED <<command, config, input_lines, rng, blend_in, blend_out, line, text,
                   total_frames, cycle, frame, twinkle_states, ops, trace, history, exit,
                   sample_in>>

SweepSpec == SweepInit /\ [][SweepCycle]_vars

(***************************************************************************)
(* C12.  The range of the 1D sweep position.                               *)
(***************************************************************************)
C12_First == -sample_in.padding
C12_Last == sample_in.text_len + sample_in.padding - 1

\* C12: on every frame the position lies in [-padding, text_len + padding - 1],
\* which holds text_len + 2 * padding positions; at ping-pong progress 0 it is
\* the first of them with Beginning start and the last with End start, and at
\* ping-pong progress 1 the other way round.
C12_PositionInRange ==
    sample_out # <<>> =>
        /\ Cardinality(C12_First..C12_Last) = sample_in.text_len + 2 * sample_in.padding
        /\ \A j \in 1..Len(sample_out) :
              /\ sample_out[j].shine_position \in C12_First..C12_Last
              /\ sample_out[j].back_and_forth_progress = F32Zero =>
                    sample_out[j].shine_position =
                        IF sample_in.start = "Beginning" THEN C12_First ELSE C12_Last
              /\ sample_out[j].back_and_forth_progress = F32One =>
                    sample_out[j].shine_position =
                        IF sample_in.start = "Beginning" THEN C12_Last ELSE C12_First

C12_Witness ==
    /\ Len(sample_out) = 3
    /\ sample_in.text_len = 12 /\ sample_in.padding = 5 /\ sample_in.start = "Beginning"
    /\ sample_in.easing = "Linear"
    /\ sample_out[1].shine_position = -5 /\ sample_out[2].shine_position = 16
    /\ sample_out[2].back_and_forth_progress = F32One
    /\ sample_out[3].shine_position = -5

(***************************************************************************)
(* C13.  Characters away from the sweep keep the base colour.              *)
(***************************************************************************)
\* the characters a 1D frame prints, in order
PrintedChars(os) == SelectSeq(os, LAMBDA o : o.op = "PrintCh")

C13_FrameKeepsBase ==
    LET pos == shine_position(config, text, frame, total_frames)
        printed == PrintedChars(ops')
    IN  /\ Len(printed) = Len(text)
        /\ \A i \in 0..(Len(text) - 1) :
              (Abs(i - pos) > config.width \/ (~config.blur /\ Abs(i - pos) # 0))
                  => printed[i + 1] = PrintCh(config.base_color, text[i + 1])
        /\ (frame = 0 /\ total_frames >= 2 /\ config.start = "Beginning" /\ ~config.blur
            /\ config.padding >= 1)
              => /\ pos = -config.padding
                 /\ \A i \in 1..Len(text) : printed[i] = PrintCh(config.base_color, text[i])

\* C13: every 1D frame prints each character whose distance from the sweep
\* exceeds `width`, and without blur each character not at the sweep, in the
\* base colour; frame 0 of a Beginning cycle without blur and with padding
\* >= 1 has the sweep at -padding and prints the whole line in the base colour.
C13_OutsideRadiusIsBase ==
    [][(command = "Shine" /\ SweepFrame) => C13_FrameKeepsBase]_vars

\* base (255,0,0), target (255,255,255), width 2, no blur, Beginning: frame 0
C13_Witness ==
    /\ command = "Shine" /\ text = <<"a", "a">> /\ pc = "frame" /\ frame = 1
    /\ config.start = "Beginning" /\ ~config.blur /\ config.width = 2
    /\ config.padding = 1 /\ config.base_color = Rgb(255, 0, 0)
    /\ config.shine_color = Rgb(255, 255, 255)
    /\ PrintedChars(ops) = <<PrintCh(Rgb(255, 0, 0), "a"), PrintCh(Rgb(255, 0, 0), "a")>>

(***************************************************************************)
(* Colour arguments: parse_rgb_color and its two calls in main.  A string  *)
(* is a sequence of one-character strings.                                 *)
(***************************************************************************)
Digits == <<"0", "1", "2", "3", "4", "5", "6", "7", "8", "9">>
Whitespace == {" ", "\t"}

IsDigit(c) == \E d \in 1..10 : Digits[d] = c
to_digit(c) == (CHOOSE d \in 1..10 : Digits[d] = c) - 1

ParseOk(v) == [ok |-> TRUE, value |-> v]
ParseErr(e) == [ok |-> FALSE, error |-> e]

\* str::split(','): the pieces between the commas, at least one piece
RECURSIVE split_from(_, _, _)
split_from(str, i, piece) ==
    IF i > Len(str) THEN <<piece>>
    ELSE IF str[i] = "," THEN <<piece>> \o split_from(str, i + 1, <<>>)
    ELSE split_from(str, i + 1, Append(piece, str[i]))

split(str) == split_from(str, 1, <<>>)

\* str::trim
RECURSIVE trim_start(_)
trim_start(str) ==
    IF str # <<>> /\ Head(str) \in Whitespace THEN trim_start(Tail(str)) ELSE str

RECURSIVE trim_end(_)
trim_end(str) ==
    IF str # <<>> /\ str[Len(str)] \in Whitespace
    THEN trim_end(SubSeq(str, 1, Len(str) - 1)) ELSE str

trim(str) == trim_end(trim_start(str))

\* the digit loop of u8::from_str: checked_mul(10), checked_add(digit)
RECURSIVE parse_digits(_, _, _)
parse_digits(digits, i, result) ==
    IF i > Len(digits) THEN ParseOk(result)
    ELSE IF ~IsDigit(digits[i]) THEN ParseErr("InvalidDigit")
    ELSE IF result * 10 > 255 THEN ParseErr("PosOverflow")
    ELSE IF result * 10 + to_digit(digits[i]) > 255 THEN ParseErr("PosOverflow")
    ELSE parse_digits(digits, i + 1, result * 10 + to_digit(digits[i]))

\* str::parse::<u8>: an optional '+', no '-' for an unsigned type
parse_u8(src) ==
    IF src = <<>> THEN ParseErr("Empty")
    ELSE IF Len(src) = 1 /\ src[1] \in {"+", "-"} THEN ParseErr("InvalidDigit")
    ELSE IF src[1] = "+" THEN parse_digits(Tail(src), 1, 0)
    ELSE parse_digits(src, 1, 0)

\* the parts parsed as they are
parse_rgb_color_untrimmed(color_str) ==
    LET parts == split(color_str)
    IN  IF Len(parts) # 3 THEN ParseErr("format")
        ELSE LET r == parse_u8(parts[1])
                 g == parse_u8(parts[2])
                 b == parse_u8(parts[3])
             IN  IF ~r.ok THEN r ELSE IF ~g.ok THEN g ELSE IF ~b.ok THEN b
                 ELSE ParseOk(<<r.value, g.value, b.value>>)

parse_rgb_color(color_str) ==
    LET parts == split(color_str)
    IN  IF Len(parts) # 3 THEN ParseErr("format")
        ELSE LET r == parse_u8(trim(parts[1]))
                 g == parse_u8(trim(parts[2]))
                 b == parse_u8(trim(parts[3]))
             IN  IF ~r.ok THEN r ELSE IF ~g.ok THEN g ELSE IF ~b.ok THEN b
                 ELSE ParseOk(<<r.value, g.value, b.value>>)

\* the pieces the argument strings are made of
ColorParts ==
    {<<>>, <<"0">>, <<"7">>, <<"2", "5", "5">>, <<"2", "5", "6">>, <<"-", "1">>,
     <<"-", "0">>, <<"+", "5">>, <<"+">>, <<"0", "0", "7">>, <<"a">>,
     <<"1", " ", "2">>, <<" ", "2", "5", "5", " ">>, <<"\t", "0">>}

ColorStrings ==
    ColorParts
    \cup {a \o <<",">> \o b : a, b \in ColorParts}
    \cup {a \o <<",">> \o b \o <<",">> \o c : a, b, c \in ColorParts}
    \cup {a \o <<",">> \o b \o <<",">> \o c \o <<",">> \o d :
            a, b, c, d \in {<<"0">>, <<"2", "5", "5">>}}

ShineColorStrings ==
    {<<"2", "5", "5", ",", "2", "5", "5", ",", "2", "5", "5">>,
     <<"2", "5", "6", ",", "0", ",", "0">>,
     <<"0", ",", " ", "0">>}

\* main after Cli::parse: --color and --shine-color as given, one input line
ParseInit ==
    /\ sample_in \in [color : ColorStrings, shine_color : ShineColorStrings]
    /\ sample_out = <<>>
    /\ pc = "args" /\ line = 0 /\ text = <<>> /\ total_frames = 0
    /\ cycle = 0 /\ frame = 0 /\ twinkle_states = <<>>
    /\ ops = <<>> /\ trace = <<>> /\ history = <<>> /\ exit = "running"
    /\ command = "Shine" /\ config = DefaultConfig /\ input_lines = <<<<"a">>>>
    /\ rng = CoarseRng /\ blend_in = <<>> /\ blend_out = <<>>

\* main: `let rgb = parse_rgb_color(&color_str)?;` and
\* `let shine_rgb = parse_rgb_color(&shine_color)?;` both succeed and the
\* ShineConfig is built from them
MainColorsOk ==
    /\ pc = "args" /\ exit = "running"
    /\ LET rgb == parse_rgb_color(sample_in.color)
           shine_rgb == parse_rgb_color(sample_in.shine_color)
       IN  /\ rgb.ok /\ shine_rgb.ok
           /\ sample_out' = <<rgb, shine_rgb>>
           /\ config' = [config EXCEPT
                           !.base_color = Rgb(rgb.value[1], rgb.value[2], rgb.value[3]),
                           !.shine_color = Rgb(shine_rgb.value[1], shine_rgb.value[2],
                                               shine_rgb.value[3])]
    /\ pc' = "main"
    /\ UNCHANGED <<command, input_lines, rng, blend_in, blend_out, sample_in, Locals,
                   line, text, ops, trace, history, exit>>

\* main: the first `?` that sees an Err returns it from main
MainColorsErr ==
    /\ pc = "args" /\ exit = "running"
    /\ LET rgb == parse_rgb_color(sample_in.color)
           shine_rgb == parse_rgb_color(sample_in.shine_color)
       IN  /\ ~rgb.ok \/ ~shine_rgb.ok
           /\ sample_out' = IF ~rgb.ok THEN <<rgb>> ELSE <<rgb, shine_rgb>>
    /\ pc' = "done"
    /\ exit' = "failure"
    /\ UNCHANGED <<command, config, input_lines, rng, blend_in, blend_out, sample_in,
                   Locals, line, text, ops, trace, history>>

ParseSpec == ParseInit /\ [][MainColorsOk \/ MainColorsErr \/ MainCall]_vars

(***************************************************************************)
(* C14.  Which colour strings parse, and what main does with the others.   *)
(***************************************************************************)
\* positions of the commas of a string
C14_Commas(str) == {i \in 1..Len(str) : str[i] = ","}

\* the part between two positions, without the whitespace around it
C14_Between(str, lo, hi) ==
    LET inner == {i \in (lo + 1)..(hi - 1) : str[i] \notin Whitespace}
    IN  IF inner = {} THEN <<>>
        ELSE SubSeq(str, CHOOSE i \in inner : \A j \in inner : i <= j,
                         CHOOSE i \in inner : \A j \in inner : i >= j)

\* the three trimmed parts of a string with exactly two commas
C14_Parts(str) ==
    LET c1 == CHOOSE i \in C14_Commas(str) : \A j \in C14_Commas(str) : i <= j
        c2 == CHOOSE i \in C14_Commas(str) : \A j \in C14_Commas(str) : i >= j
    IN  <<C14_Between(str, 0, c1), C14_Between(str, c1, c2),
          C14_Between(str, c2, Len(str) + 1)>>

\* value of a string of decimal digits, least significant digit last
RECURSIVE C14_Value(_)
C14_Value(ds) ==
    IF ds = <<>> THEN 0
    ELSE 10 * C14_Value(SubSeq(ds, 1, Len(ds) - 1)) + to_digit(ds[Len(ds)])

C14_Unsigned(part) ==
    /\ part # <<>>
    /\ \A i \in 1..Len(part) : IsDigit(part[i])
    /\ C14_Value(part) <= 255

C14_Signed(part) ==
    /\ part # <<>>
    /\ C14_Unsigned(IF part[1] = "+" THEN Tail(part) ELSE part)

C14_Number(part) == C14_Value(IF part[1] = "+" THEN Tail(part) ELSE part)

C14_MainFailsEarly ==
    /\ exit = "failure" <=> (pc = "done" /\ ~sample_out[Len(sample_out)].ok)
    /\ exit = "failure" => (line = 0 /\ text = <<>> /\ trace = <<>> /\ history = <<>>)
    /\ line > 0 => (Len(sample_out) = 2 /\ sample_out[1].ok /\ sample_out[2].ok)

C14_Parsed(accepts(_)) ==
    LET str == sample_in.color
        good == /\ Cardinality(C14_Commas(str)) = 2
                /\ \A k \in 1..3 : accepts(C14_Parts(str)[k])
    IN  sample_out # <<>> =>
          /\ sample_out[1].ok <=> good
          /\ good => sample_out[1].value = [k \in 1..3 |-> C14_Number(C14_Parts(str)[k])]
          /\ C14_MainFailsEarly

\* the statement with "decimal integer" read as a string of digits
C14_DigitsOnly == C14_Parsed(C14_Unsigned)

\* C14: parse_rgb_color succeeds exactly when the string has exactly three
\* comma-separated parts each of which, trimmed, is an optional '+' followed
\* by decimal digits with a value in 0..255, and returns the three values in
\* order; on any other --color or --shine-color main ends with failure and no
\* renderer has been called.
C14_ParsesExactlyRgb == C14_Parsed(C14_Signed)

\* "+5, 255 ,007" is accepted as (5, 255, 7) and the renderer is entered
C14_Witness ==
    /\ sample_in.color = <<"+", "5", ",", " ", "2", "5", "5", " ", ",", "0", "0", "7">>
    /\ sample_out # <<>> /\ sample_out[1] = ParseOk(<<5, 255, 7>>)
    /\ pc = "enter" /\ config.base_color = Rgb(5, 255, 7)

(***************************************************************************)
(* C15.  Shape of the ping-pong progress over one cycle.                   *)
(***************************************************************************)
\* C15: in a cycle of at least two frames the ping-pong progress of every
\* frame is in [0, 1], it is 0 on the first and on the last frame, it does not
\* decrease from a frame to the next while the eased progress is below 0.5 and
\* does not increase from a frame to the next once the eased progress is at
\* least 0.5.
C15_PingPongShape ==
    (sample_out # <<>> /\ sample_in.total_frames >= 2) =>
        /\ \A j \in 1..Len(sample_out) :
              /\ F32Le(F32Zero, sample_out[j].back_and_forth_progress)
              /\ F32Le(sample_out[j].back_and_forth_progress, F32One)
        /\ sample_out[1].back_and_forth_progress = F32Zero
        /\ sample_out[Len(sample_out)].back_and_forth_progress = F32Zero
        /\ \A j \in 1..(Len(sample_out) - 1) :
              /\ (/\ F32Lt(sample_out[j].eased_progress, F32Half)
                  /\ F32Lt(sample_out[j + 1].eased_progress, F32Half))
                    => F32Le(sample_out[j].back_and_forth_progress,
                             sample_out[j + 1].back_and_forth_progress)
              /\ (/\ F32Ge(sample_out[j].eased_progress, F32Half)
                  /\ F32Ge(sample_out[j + 1].eased_progress, F32Half))
                    => F32Ge(sample_out[j].back_and_forth_progress,
                             sample_out[j + 1].back_and_forth_progress)

\* EaseInOut over 8 frames: the progress rises on frames 0..3 and falls on 4..7
C15_Witness ==
    /\ sample_out # <<>> /\ sample_in.total_frames = 8 /\ sample_in.easing = "EaseInOut"
    /\ \A j \in 1..3 : F32Lt(sample_out[j].back_and_forth_progress,
                             sample_out[j + 1].back_and_forth_progress)
    /\ \A j \in 5..7 : F32Lt(sample_out[j + 1].back_and_forth_progress,
                             sample_out[j].back_and_forth_progress)
    /\ F32Lt(sample_out[4].eased_progress, F32Half)
    /\ F32Ge(sample_out[5].eased_progress, F32Half)

(***************************************************************************)
(* C16.  Whether the sweep reaches its far end.                            *)
(***************************************************************************)
C16_FarEnd ==
    IF sample_in.start = "Beginning" THEN sample_in.text_len + sample_in.padding - 1
    ELSE -sample_in.padding

\* C16: in a cycle of at least two frames some frame has ping-pong progress 1
\* and draws the sweep at its far end.
C16_ReachesFarEnd ==
    (sample_out # <<>> /\ sample_in.total_frames >= 2) =>
        \E j \in 1..Len(sample_out) :
            /\ sample_out[j].back_and_forth_progress = F32One
            /\ sample_out[j].shine_position = C16_FarEnd

\* Linear, 4 frames, 12 characters, padding 5: the ping-pong progress peaks
\* at 2/3 and the sweep turns round at column 9, short of 16
C16_Witness ==
    /\ sample_out # <<>> /\ sample_in.total_frames = 4 /\ sample_in.easing = "Linear"
    /\ sample_in.start = "Beginning" /\ sample_in.text_len = 12 /\ sample_in.padding = 5
    /\ \A j \in 1..4 : /\ F32Lt(sample_out[j].back_and_forth_progress, F32Ratio(7, 10))
                       /\ sample_out[j].shine_position <= 9
    /\ sample_out[2].shine_position = 9

(***************************************************************************)
(* C17.  The switchback sleep.                                             *)
(***************************************************************************)
\* how many switchback sleeps a frame makes, and where in the frame
C17_Sleeps(events) == {k \in 1..Len(events) : events[k].op = "sleep"
                                               /\ events[k].what = <<"switchback">>}

C17_Frames == {j \in 1..Len(sample_out) : C17_Sleeps(sample_out[j].events) # {}}

C17_Upper == {j \in 1..Len(sample_out) : F32Ge(sample_out[j].eased_progress, F32Half)}

\* C17: with a switchback delay and at least two frames, exactly one frame of
\* the cycle sleeps for the switchback, once and for the configured time,
\* before its first drawing operation; it is the first frame whose eased
\* progress is >= 0.5, its predecessor's eased progress is < 0.5, and it is
\* not frame 0.
C17_SwitchbackOnce ==
    (/\ sample_out # <<>> /\ sample_in.total_frames >= 2
     /\ IsSome(sample_in.cycle_switchback_delay)) =>
        /\ Cardinality(C17_Frames) = 1
        /\ \A j \in C17_Frames :
              /\ j > 1
              /\ j \in C17_Upper /\ \A i \in C17_Upper : j <= i
              /\ F32Lt(sample_out[j - 1].eased_progress, F32Half)
              /\ C17_Sleeps(sample_out[j].events) = {1}
              /\ sample_out[j].events[1] =
                    Sleep("switchback", Unwrap(sample_in.cycle_switchback_delay))
              /\ \E k \in 2..Len(sample_out[j].events) :
                    sample_out[j].events[k] = MoveToColumn

\* EaseIn over 8 frames: (5/7)^2 is the first eased value >= 0.5
C17_Witness ==
    /\ sample_out # <<>> /\ sample_in.total_frames = 8 /\ sample_in.easing = "EaseIn"
    /\ sample_in.cycle_switchback_delay = Some(30)
    /\ C17_Frames = {6}
    /\ Head(sample_out[6].events) = Sleep("switchback", 30)

(***************************************************************************)
(* C18.  The pre-cycle and post-cycle sleeps of the two sweeps.            *)
(***************************************************************************)
C18_IsSleep(o, kind) == o.op = "sleep" /\ o.what = <<kind>>

\* how many sleeps of a kind the first k operations hold
C18_Count(os, kind, k) == Cardinality({i \in 1..k : C18_IsSleep(os[i], kind)})

\* the first operation of a frame 0: the pause sleep or the cursor move
C18_FrameStart(o) == C18_IsSleep(o, "pause") \/ o.op = "Move"

C18_At(os, k) ==
    LET tf == TotalFrames(config)
        frames == C18_Count(os, "frame", k)
        pres == C18_Count(os, "pre", k)
        posts == C18_Count(os, "post", k)
        pre == config.cycle_pre_delay
        post == config.cycle_post_delay
    IN  /\ C18_IsSleep(os[k], "frame") =>
              /\ IsSome(pre) => pres = ((frames - 1) \div tf) + 1
              /\ IsSome(post) => posts = (frames - 1) \div tf
        /\ C18_IsSleep(os[k], "pre") =>
              /\ IsSome(pre) /\ os[k].ms = Unwrap(pre)
              /\ frames = (pres - 1) * tf
              /\ k < Len(os) => C18_FrameStart(os[k + 1])
        /\ C18_IsSleep(os[k], "post") =>
              /\ IsSome(post) /\ os[k].ms = Unwrap(post)
              /\ C18_IsSleep(os[k - 1], "frame")
              /\ frames = posts * tf
        /\ os[k].op = "Show" =>
              /\ frames = config.cycles * tf
              /\ IsSome(pre) => pres = config.cycles
              /\ IsSome(post) => posts = config.cycles /\ C18_IsSleep(os[k - 1], "post")

\* C18: in a call of the 1D or 2D sweep with at least one frame per cycle, a
\* configured pre-cycle sleep happens once per cycle, before the cycle's first
\* frame starts, and a configured post-cycle sleep happens once per cycle,
\* right after the pacing sleep of the cycle's last frame; the last cycle's
\* post-cycle sleep is the operation before Show, and neither sleep happens
\* between two frames of one cycle.
C18_DelaysAroundFrames ==
    (command \in {"Shine", "Shine2d"} /\ config.speed # 0) =>
        (TotalFrames(config) >= 1 => \A k \in 1..Len(trace) : C18_At(trace, k))

\* two cycles of three frames with all delays: pre, post, pre, post, Show
C18_Witness ==
    /\ command = "Shine2d" /\ exit = "success" /\ config.cycles = 2
    /\ config.cycle_pre_delay = Some(10) /\ config.cycle_post_delay = Some(20)
    /\ config.speed = 1 /\ config.duration = 3
    /\ C18_Count(trace, "pre", Len(trace)) = 2
    /\ C18_Count(trace, "post", Len(trace)) = 2
    /\ C18_Count(trace, "frame", Len(trace)) = 6
    /\ \E k \in 2..Len(trace) : trace[k] = Show /\ trace[k - 1] = Sleep("post", 20)

(***************************************************************************)
(* C19.  The pause sleep.                                                  *)
(***************************************************************************)
C19_Pauses(events) == {k \in 1..Len(events) : events[k].op = "sleep"
                                               /\ events[k].what = <<"pause">>}

\* |(position + padding) / total_range - pause_position| < 0.05, in integers
C19_InBand(position) ==
    LET n == position + sample_in.padding
        d == sample_in.text_len + 2 * sample_in.padding
        arg == sample_in.pause_arg
    IN  20 * Abs(n * arg[2] - arg[1] * d) < d * arg[2]

C20_SingleFrameAtStart ==
    (sample_out # <<>> /\ sample_in.total_frames = 1) =>
        /\ sample_out[1].progress = F32Zero
        /\ sample_out[1].shine_position =
              IF sample_in.start = "Beginning" THEN -sample_in.padding
              ELSE sample_in.text_len + sample_in.padding - 1
        /\ \A k \in 1..Len(sample_out[1].events) :
              sample_out[1].events[k].what # <<"switchback">>

\* End start, 12 characters, padding 5, one frame: progress is NaN and the
\* sweep is drawn at column -5, not 16
C20_Witness ==
    /\ sample_out # <<>> /\ sample_in.total_frames = 1 /\ sample_in.start = "End"
    /\ sample_in.text_len = 12 /\ sample_in.padding = 5
    /\ F32IsNaN(sample_out[1].progress)
    /\ F32IsNaN(sample_out[1].back_and_forth_progress)
    /\ sample_out[1].shine_position = -5

(***************************************************************************)
(* The top-up step of a twinkle update frame on its own: the slot map left *)
(* by retain, the anchors, the target count and the draws of the insert    *)
(* loop; the slot map after each iteration is kept.                        *)
(***************************************************************************)
TopUpTexts == {<<".", ".">>, <<".", "a", ".">>, <<".", ".", ".">>}

\* a slot that has been aged once
AgedSlot == [phase |-> FDiv(F(1), F(20)), duration |-> 20, pause_duration |-> <<1, 10>>]

TopUpInputs ==
    UNION {
      UNION {
        UNION {
          {[text |-> t, twinkle_states |-> [p \in held |-> AgedSlot],
            twinkle_count |-> tc, draws |-> ds] :
              ds \in [1..new_twinkles_needed([p \in held |-> AgedSlot],
                                             available_positions([p \in held |-> AgedSlot],
                                                                 period_positions(t)), tc)
                      -> TwinkleDraws(FineRng,
                                      available_positions([p \in held |-> AgedSlot],
                                                          period_positions(t)))]} :
          tc \in 0..3} :
        held \in SUBSET Anchors(t)} :
      t \in TopUpTexts}

TopUpInit == sample_in \in TopUpInputs /\ SampleIdle

\* `if current_twinkles < twinkle_count { .. for _ in 0..new_twinkles_needed { .. } }`
TopUp ==
    /\ pc = "sample" /\ sample_out = <<>>
    /\ LET periods == period_positions(sample_in.text)
           available == available_positions(sample_in.twinkle_states, periods)
       IN  sample_out' =
              [n \in 1..(Len(sample_in.draws) + 1) |->
                  InsertLoop(sample_in.twinkle_states, available,
                             SubSeq(sample_in.draws, 1, n - 1), 1)]
    /\ pc' = "sampled"
    /\ UNCHANGED <<command, config, input_lines, rng, blend_in, blend_out, line, text,
                   total_frames, cycle, frame, twinkle_states, ops, trace, history, exit,
                   sample_in>>

TopUpSpec == TopUpInit /\ [][TopUp]_vars

(***************************************************************************)
(* C21.  Whether top-up reaches the target count.                          *)
(***************************************************************************)
C21_After == sample_out[Len(sample_out)]

\* C21: after the top-up step the number of active slots is at least the
\* target count, or every anchor holds an active slot.
C21_TopUpReachesTarget ==
    sample_out # <<>> =>
        \/ Cardinality(DOMAIN C21_After) >= sample_in.twinkle_count
        \/ Anchors(sample_in.text) \subseteq DOMAIN C21_After

\* target 2 on "..", no slot held, both draws take the first anchor: one slot
\* is active and the second anchor is unclaimed
C21_Witness ==
    /\ sample_out # <<>> /\ sample_in.text = <<".", ".">>
    /\ sample_in.twinkle_states = <<>> /\ sample_in.twinkle_count = 2
    /\ Len(sample_in.draws) = 2
    /\ sample_in.draws[1].index = 1 /\ sample_in.draws[2].index = 1
    /\ DOMAIN C21_After = {0}

(***************************************************************************)
(* C22.  Whether top-up draws anchors without replacement.                 *)
(***************************************************************************)
\* the anchor the n-th iteration of the insert loop takes
C22_Drawn(n) ==
    available_positions(sample_in.twinkle_states,
                        period_positions(sample_in.text))[sample_in.draws[n].index]

\* C22: every iteration of the insert loop creates its slot at an anchor that
\* holds no slot at that moment, so the new slots go to pairwise distinct
\* anchors, and every slot present before an iteration is the same after it.
C22_TopUpWithoutReplacement ==
    sample_out # <<>> =>
        /\ \A n \in 1..Len(sample_in.draws) :
              /\ C22_Drawn(n) \notin DOMAIN sample_out[n]
              /\ \A p \in DOMAIN sample_out[n] : sample_out[n + 1][p] = sample_out[n][p]
        /\ \A n, m \in 1..Len(sample_in.draws) : n # m => C22_Drawn(n) # C22_Drawn(m)

\* both iterations take anchor 0: the slot of lifetime 20 created by the first
\* is replaced by one of lifetime 59
C22_Witness ==
    /\ sample_out # <<>> /\ sample_in.text = <<".", ".">>
    /\ sample_in.twinkle_states = <<>> /\ sample_in.twinkle_count = 2
    /\ Len(sample_in.draws) = 2
    /\ C22_Drawn(1) = 0 /\ C22_Drawn(2) = 0
    /\ sample_out[2][0].duration = 20 /\ sample_out[3][0].duration = 59
    /\ DOMAIN sample_out[3] = {0}

(***************************************************************************)
(* The target count of a twinkle update frame on its own, with the ratio   *)
(* product in bit-exact f32.  A ratio is the fraction <<n, d>> its decimal *)
(* text denotes.                                                           *)
(***************************************************************************)
\* f32::round of a value >= 0, `as usize`: half away from zero
F32RoundInt(x) ==
    IF x[1] <= 0 THEN 0
    ELSE IF x[2] >= 0 THEN x[1] * P2(x[2])
    ELSE IF x[2] < -24 THEN 0
    ELSE (x[1] \div P2(-x[2]))
         + (IF 2 * (x[1] % P2(-x[2])) >= P2(-x[2]) THEN 1 ELSE 0)

\* `(period_positions.len() as f32 * ratio).round() as usize`
ratio_count_f32(k, ratio) == F32RoundInt(F32Mul(F32Of(k), F32Ratio(ratio[1], ratio[2])))

\* a choice that looks at a lone min or max before the ratio
twinkle_count_lone_first(min, max, ratio, k) ==
    IF IsSome(min) /\ IsSome(max) THEN Unwrap(min)..Min(Unwrap(max), k)
    ELSE IF IsSome(min) THEN {Min(Unwrap(min), k)}
    ELSE IF IsSome(max) THEN {Min(Unwrap(max), k)}
    ELSE IF IsSome(ratio) THEN {Max(ratio_count_f32(k, Unwrap(ratio)), 1)}
    ELSE {ratio_count_f32(k, <<3, 10>>)}

\* the values `twinkle_count` can take; the empty set where gen_range panics
twinkle_count_f32(min, max, ratio, k) ==
    IF IsSome(min) /\ IsSome(max) THEN Unwrap(min)..Min(Unwrap(max), k)
    ELSE IF IsSome(ratio) THEN {Max(ratio_count_f32(k, Unwrap(ratio)), 1)}
    ELSE IF IsSome(min) THEN {Min(Unwrap(min), k)}
    ELSE IF IsSome(max) THEN {Min(Unwrap(max), k)}
    ELSE {ratio_count_f32(k, <<3, 10>>)}

MaxAnchors == 16

CountRatios == {None, Some(<<0, 1>>), Some(<<1, 10>>), Some(<<3, 10>>), Some(<<1, 2>>),
                Some(<<7, 10>>), Some(<<1, 1>>)}

CountInputs ==
    [min_twinkle_count : {None, Some(1), Some(2), Some(4)},
     max_twinkle_count : {None, Some(1), Some(3)},
     twinkle_ratio : CountRatios,
     k : 1..MaxAnchors]

CountInit == sample_in \in CountInputs /\ SampleIdle

\* `let twinkle_count = if let (Some(min), Some(max)) = .. else ..`
CountTarget ==
    /\ pc = "sample" /\ sample_out = <<>>
    /\ sample_out' = <<twinkle_count_f32(sample_in.min_twinkle_count,
                                         sample_in.max_twinkle_count,
                                         sample_in.twinkle_ratio, sample_in.k)>>
    /\ pc' = "sampled"
    /\ UNCHANGED <<command, config, input_lines, rng, blend_in, blend_out, line, text,
                   total_frames, cycle, frame, twinkle_states, ops, trace, history, exit,
                   sample_in>>

CountSpec == CountInit /\ [][CountTarget]_vars

(***************************************************************************)
(* C23.  Priority of the sources of the target count.                      *)
(***************************************************************************)
\* round(a / b), half up, for a >= 0 and b > 0
C23_Round(a, b) == (2 * a + b) \div (2 * b)

C23_Expected ==
    LET min == sample_in.min_twinkle_count
        max == sample_in.max_twinkle_count
        ratio == sample_in.twinkle_ratio
        k == sample_in.k
    IN  CASE min # None /\ max # None ->
                {c \in 0..MaxAnchors : Unwrap(min) <= c /\ c <= Unwrap(max) /\ c <= k}
          [] ~(min # None /\ max # None) /\ ratio # None ->
                {IF C23_Round(k * Unwrap(ratio)[1], Unwrap(ratio)[2]) >= 1
                 THEN C23_Round(k * Unwrap(ratio)[1], Unwrap(ratio)[2]) ELSE 1}
          [] min # None /\ max = None /\ ratio = None ->
                {IF Unwrap(min) <= k THEN Unwrap(min) ELSE k}
          [] min = None /\ max # None /\ ratio = None ->
                {IF Unwrap(max) <= k THEN Unwrap(max) ELSE k}
          [] min = None /\ max = None /\ ratio = None -> {C23_Round(k * 3, 10)}

\* C23: the target count of an update frame with k anchors is a value of
\* [min, min(max, k)] if min and max are both set, else max(1, round(k *
\* ratio)) if a ratio is set, else min(min, k) for a lone min, else
\* min(max, k) for a lone max, else round(k * 0.3).
C23_TargetPriority ==
    sample_out # <<>> => sample_out[1] = C23_Expected

\* ratio 0 with a lone min of 4 on 5 anchors: the target is 1
C23_Witness ==
    /\ sample_out # <<>> /\ sample_in.twinkle_ratio = Some(<<0, 1>>)
    /\ sample_in.min_twinkle_count = Some(4) /\ sample_in.max_twinkle_count = None
    /\ sample_in.k = 5 /\ sample_out[1] = {1}

(***************************************************************************)
(* C24.  Whether a twinkle call with min and max set always returns.       *)
(***************************************************************************)
C24_Applies(t) ==
    /\ command = "Twinkle" /\ HasPeriod(t) /\ config.speed # 0
    /\ IsSome(config.min_twinkle_count) /\ IsSome(config.max_twinkle_count)

\* C24: a twinkle call on text with an anchor, with min_twinkle_count and
\* max_twinkle_count both set, ends by returning Ok or an I/O error, whatever
\* min, max and the anchor count are (a failed println! aside).
C24_RangeAlwaysReturns ==
    \A h \in Finished :
        C24_Applies(h.text) => h.ret \in {"Ok", "Err"} \/ h.failed = <<"println">>

\* min 3, max 3 on the single anchor of ".": the first update frame panics
C24_Witness ==
    /\ C24_Applies(text) /\ text = <<".">>
    /\ config.min_twinkle_count = Some(3) /\ config.max_twinkle_count = Some(3)
    /\ exit = "panic" /\ pc = "done"
    /\ history # <<>> /\ history[Len(history)].failed = <<"empty range">>
    /\ FrameStarts(trace) = 0

(***************************************************************************)
(* C25.  Twinkle frames that do not update, and the cycle boundary.        *)
(***************************************************************************)
\* a frame's operations: the cursor move, one print per character, the
\* colour reset, the flush and the pacing sleep
C25_DrawnAndPaced(os) ==
    /\ Len(os) = Len(text) + 4
    /\ os[1] = MoveToColumn
    /\ \A i \in 1..Len(text) : os[i + 1].op = "PrintCh"
    /\ os[Len(text) + 2] = ResetColor
    /\ os[Len(text) + 3] = Flush
    /\ os[Len(text) + 4] = Sleep("frame", config.speed)

\* C25: a twinkle frame whose update decision is negative leaves the slot map
\* as it was and is drawn and paced like any frame, and the step from one
\* cycle to the next leaves the slot map as it was.
C25_IdleFrameKeepsSlots ==
    [][/\ TwinkleFrameIdle =>
            /\ twinkle_states' = twinkle_states
            /\ frame' = frame + 1
            /\ C25_DrawnAndPaced(ops')
       /\ (command = "Twinkle" /\ (cycle' # cycle \/ pc' = "cycle" \/ pc = "cycle")
           /\ pc' \in {"cycle", "frame", "epilogue"})
            => twinkle_states' = twinkle_states]_vars

\* three frames drawn on ".", the slot created on the first and aged once:
\* one of the other two frames did not update and kept it
C25_Witness ==
    /\ command = "Twinkle" /\ text = <<".">> /\ config.twinkling_percentage = <<4, 5>>
    /\ pc = "frame" /\ frame = 3 /\ ops = <<>> /\ FrameStarts(trace) = 3
    /\ DOMAIN twinkle_states = {0}
    /\ twinkle_states[0].phase = FDiv(F(1), F(20))
    /\ twinkle_states[0].duration = 20

(***************************************************************************)
(* One twinkle slot from its creation to its removal, over update frames   *)
(* only, with the phase in bit-exact f32.  sample_out holds the phases the *)
(* slot was stored with, the first at creation.                            *)
(***************************************************************************)
\* an ageing that adds 1/duration twice
aged_phase_twice(phase, duration) ==
    F32Add(F32Add(phase, F32Div(F32One, duration)), F32Div(F32One, duration))

\* `state.phase += 1.0 / state.duration`
aged_phase_f32(phase, duration) == F32Add(phase, F32Div(F32One, duration))

\* values of rng.gen_range(20.0..60.0): 20, the f32 after 20, 20.5, 25, 33,
\* 59, 59.5 and the f32 before 60
SlotDurations ==
    {F32Of(20), <<10485761, -19>>, F32Ratio(41, 2), F32Of(25), F32Of(33), F32Of(59),
     F32Ratio(119, 2), <<15728639, -18>>}

SlotInit == sample_in \in [duration : SlotDurations] /\ SampleIdle

SlotUnchanged ==
    UNCHANGED <<command, config, input_lines, rng, blend_in, blend_out, line, text,
                total_frames, cycle, frame, twinkle_states, ops, trace, history, exit,
                sample_in>>

\* twinkle_states.insert(pos, TwinkleState { phase: 0.0, duration, .. })
SlotInsert ==
    /\ pc = "sample" /\ sample_out = <<>>
    /\ sample_out' = <<F32Zero>>
    /\ pc' = "slot"
    /\ SlotUnchanged

\* retain on an update frame: the aged slot is kept (`state.phase <= 1.0`)
SlotRetain ==
    /\ pc = "slot"
    /\ LET aged == aged_phase_f32(sample_out[Len(sample_out)], sample_in.duration)
       IN  /\ F32Le(aged, F32One)
           /\ sample_out' = Append(sample_out, aged)
    /\ pc' = "slot"
    /\ SlotUnchanged

\* retain on an update frame: the aged slot is dropped
SlotDrop ==
    /\ pc = "slot"
    /\ ~F32Le(aged_phase_f32(sample_out[Len(sample_out)], sample_in.duration), F32One)
    /\ pc' = "dropped"
    /\ UNCHANGED sample_out
    /\ SlotUnchanged

SlotSpec == SlotInit /\ [][SlotInsert \/ SlotRetain \/ SlotDrop]_vars

(***************************************************************************)
(* C26.  Phase and lifetime of a slot.                                     *)
(***************************************************************************)
\* update frames the slot has lived through since its creation
C26_Survived == Len(sample_out) - 1

C26_Phases ==
    /\ sample_out[1] = F32Zero
    /\ \A i \in 1..Len(sample_out) :
          F32Le(F32Zero, sample_out[i]) /\ F32Le(sample_out[i], F32One)
    /\ \A i \in 1..(Len(sample_out) - 1) :
          /\ F32Lt(sample_out[i], sample_out[i + 1])
          /\ sample_out[i + 1] = F32Add(sample_out[i], F32Div(F32One, sample_in.duration))
    /\ pc = "dropped" =>
          ~F32Le(F32Add(sample_out[Len(sample_out)], F32Div(F32One, sample_in.duration)),
                 F32One)

\* the statement with a lifetime of at least 20 survived update frames
C26_SurvivesTwenty ==
    pc \in {"slot", "dropped"} =>
        /\ C26_Phases
        /\ C26_Survived <= 60
        /\ pc = "dropped" => C26_Survived >= 20

\* C26: a stored slot has phase in [0, 1], starting at 0 and growing by
\* 1/lifetime on each update frame; it is dropped on the update frame that
\* takes its phase above 1; with lifetime in [20, 60) it lives through at
\* least 19 and at most 60 update frames after the one that created it, so it
\* is dropped after at most 61 update frames.
C26_SlotAgesAndExpires ==
    pc \in {"slot", "dropped"} =>
        /\ C26_Phases
        /\ C26_Survived <= 60
        /\ pc = "dropped" => C26_Survived >= 19

\* lifetime 20.0: twenty additions of 0.05f32 exceed 1, and the slot is
\* dropped on the 20th update frame after its creation
C26_Witness ==
    /\ pc = "dropped" /\ sample_in.duration = F32Of(20)
    /\ C26_Survived = 19
    /\ sample_out[20] = <<15938358, -24>>

(***************************************************************************)
(* calculate_three_phase_progress on its own, in bit-exact f32.  A result  *)
(* is a sign and a magnitude: the fading branch can pass an argument just  *)
(* below 0 to the easing.                                                  *)
(***************************************************************************)
Signed(neg, abs) == [neg |-> neg /\ abs # F32Zero, abs |-> abs]

\* easing.apply(-a) for a > 0
apply_f32_below_zero(easing, a) ==
    CASE easing = "Linear" -> Signed(TRUE, a)
      [] easing = "EaseIn" -> Signed(FALSE, F32Mul(a, a))
      [] easing = "EaseOut" ->
            LET u == F32Add(F32One, a)
            IN  Signed(TRUE, F32AbsDiff(F32Mul(u, u), F32One))
      [] easing = "EaseInOut" -> Signed(FALSE, F32Mul(F32Scale(a, 1), a))

\* a fading branch that eases local_progress itself, not 1 - local_progress
three_phase_not_reversed(phase, pause_duration_ratio, easing) ==
    LET ease_duration == F32Scale(F32AbsDiff(F32One, pause_duration_ratio), -1)
        pause_end == F32Add(ease_duration, pause_duration_ratio)
    IN  IF F32Le(phase, ease_duration)
        THEN Signed(FALSE, apply_f32(easing, F32Div(phase, ease_duration)))
        ELSE IF F32Le(phase, pause_end) THEN Signed(FALSE, F32One)
        ELSE Signed(FALSE, apply_f32(easing,
                                     F32Div(F32AbsDiff(phase, pause_end), ease_duration)))

\* calculate_three_phase_progress for 0 <= phase <= 1 and 0 < pause ratio < 1
three_phase_f32(phase, pause_duration_ratio, easing) ==
    LET ease_duration == F32Scale(F32AbsDiff(F32One, pause_duration_ratio), -1)
        ease_up_end == ease_duration
        pause_end == F32Add(ease_up_end, pause_duration_ratio)
    IN  IF F32Le(phase, ease_up_end)
        THEN Signed(FALSE, apply_f32(easing, F32Div(phase, ease_duration)))
        ELSE IF F32Le(phase, pause_end) THEN Signed(FALSE, F32One)
        ELSE LET local_progress == F32Div(F32AbsDiff(phase, pause_end), ease_duration)
                 reverse_progress == F32AbsDiff(F32One, local_progress)
             IN  IF F32Le(local_progress, F32One)
                 THEN Signed(FALSE, apply_f32(easing, reverse_progress))
                 ELSE apply_f32_below_zero(easing, reverse_progress)

\* pause ratios of rng.gen_range(0.1..0.2), as fractions <<n, d>>
PhasePauses == {<<1, 10>>, <<1, 8>>, <<3, 20>>, <<1, 6>>}

\* phase = i / steps, i in 0..steps
PhaseSteps == {10, 20, 32, 40}

PhaseInit ==
    /\ sample_in \in [easing : EasingFunction, pause : PhasePauses, steps : PhaseSteps]
    /\ SampleIdle

\* the progress at every sampled phase, and at phase = ease_up_end
PhaseApply ==
    /\ pc = "sample" /\ sample_out = <<>>
    /\ LET ratio == F32Ratio(sample_in.pause[1], sample_in.pause[2])
       IN  sample_out' =
              [at |-> [j \in 1..(sample_in.steps + 1) |->
                          three_phase_f32(F32Ratio(j - 1, sample_in.steps), ratio,
                                          sample_in.easing)],
               at_ease_up_end |->
                   three_phase_f32(F32Scale(F32AbsDiff(F32One, ratio), -1), ratio,
                                   sample_in.easing)]
    /\ pc' = "sampled"
    /\ UNCHANGED <<command, config, input_lines, rng, blend_in, blend_out, line, text,
                   total_frames, cycle, frame, twinkle_states, ops, trace, history, exit,
                   sample_in>>

PhaseSpec == PhaseInit /\ [][PhaseApply]_vars

(***************************************************************************)
(* C27.  Shape of the three-phase progress.                                *)
(***************************************************************************)
\* a <= b on signed values
C27_Le(a, b) ==
    IF a.neg THEN ~b.neg \/ F32Le(b.abs, a.abs)
    ELSE ~b.neg /\ F32Le(a.abs, b.abs)

C27_Zero == Signed(FALSE, F32Zero)
C27_One == Signed(FALSE, F32One)

\* (1 - p) / 2 and (1 + p) / 2 against i / steps, in integers
C27_Growing(i) ==
    2 * i * sample_in.pause[2] <= sample_in.steps * (sample_in.pause[2] - sample_in.pause[1])
C27_Fading(i) ==
    2 * i * sample_in.pause[2] > sample_in.steps * (sample_in.pause[2] + sample_in.pause[1])

\* what holds up to rounding: the plateau, the start, the peak, the slopes
C27_Shape ==
    /\ sample_out.at[1] = C27_Zero
    /\ sample_out.at_ease_up_end = C27_One
    /\ \A i \in 0..sample_in.steps :
          /\ C27_Le(sample_out.at[i + 1], C27_One)
          /\ (~C27_Growing(i) /\ ~C27_Fading(i)) => sample_out.at[i + 1] = C27_One
    /\ \A i \in 0..(sample_in.steps - 1) :
          /\ (C27_Growing(i) /\ C27_Growing(i + 1))
                => C27_Le(sample_out.at[i + 1], sample_out.at[i + 2])
          /\ (C27_Fading(i) /\ C27_Fading(i + 1))
                => C27_Le(sample_out.at[i + 2], sample_out.at[i + 1])

WrapTexts == SeqsUpTo({"a", "b", "\n"}, 5)

WrapWidths == 1..3

WrapInit ==
    /\ sample_in \in [text : WrapTexts, width : WrapWidths]
    /\ SampleIdle

WrapGrid ==
    /\ pc = "sample" /\ sample_out = <<>>
    /\ sample_out' = <<wrap_text_to_grid(sample_in.text, sample_in.width)>>
    /\ pc' = "sampled"
    /\ UNCHANGED <<command, config, input_lines, rng, blend_in, blend_out, line, text,
                   total_frames, cycle, frame, twinkle_states, ops, trace, history, exit,
                   sample_in>>

WrapSpec == WrapInit /\ [][WrapGrid]_vars

(***************************************************************************)
(* C28.  The grid partitions the text.                                     *)
(***************************************************************************)
RECURSIVE C28_Concat(_)
C28_Concat(grid) ==
    IF grid = <<>> THEN <<>> ELSE Head(grid) \o C28_Concat(Tail(grid))

C28_IsChar(ch) == ch # "\n"

\* the text a grid came from: a row of full width is followed directly by the
\* next row, a shorter row by a newline; only the last row, when it is not
\* empty, may end the text without one
RECURSIVE C28_Rebuild(_, _, _)
C28_Rebuild(grid, width, trailing_newline) ==
    IF grid = <<>> THEN <<>>
    ELSE LET row == Head(grid)
             last == Len(grid) = 1
             sep == IF Len(row) = width THEN <<>>
                    ELSE IF last /\ row # <<>> /\ ~trailing_newline THEN <<>>
                    ELSE <<"\n">>
         IN  row \o sep \o C28_Rebuild(Tail(grid), width, trailing_newline)

\* C28: with width >= 1 every row of the grid has at most width characters
\* and holds no newline, the rows in order are the text without its
\* newlines, and the rows break exactly at the newlines and after each
\* width-th character of a row.
C28_GridPartitionsText ==
    sample_out # <<>> =>
        LET grid == sample_out[1]
        IN  /\ \A r \in 1..Len(grid) :
                  /\ Len(grid[r]) <= sample_in.width
                  /\ \A i \in 1..Len(grid[r]) : C28_IsChar(grid[r][i])
            /\ C28_Concat(grid) = SelectSeq(sample_in.text, C28_IsChar)
            /\ \E nl \in BOOLEAN : C28_Rebuild(grid, sample_in.width, nl) = sample_in.text

\* "ab", newline, "ab" at width 2: a full row, the empty row the newline
\* ends, and a second full row
C28_Witness ==
    /\ sample_out # <<>> /\ sample_in.width = 2
    /\ sample_in.text = <<"a", "b", "\n", "a", "b">>
    /\ sample_out[1] = <<<<"a", "b">>, <<>>, <<"a", "b">>>>

(***************************************************************************)
(* The sweep coordinate of apply_shine2d_effect over one cycle: grids of a *)
(* given shape, paddings from 0, both starts, every easing.                *)
(***************************************************************************)
\* <<max_width, grid_height>>
GridShapes == {<<1, 1>>, <<3, 1>>, <<3, 2>>, <<4, 3>>}

GridPaddings == {0, 1, 5}

\* total_frames
GridFrames == {1, 2, 3, 5, 21}

GridOf(shape) == [y \in 1..shape[2] |-> [x \in 1..shape[1] |-> "a"]]

Sweep2dInit ==
    /\ sample_in \in [easing : EasingFunction, start : {"Beginning", "End"},
                      padding : GridPaddings, shape : GridShapes,
                      total_frames : GridFrames]
    /\ SampleIdle

\* shine_position of every frame 0..total_frames - 1, as passed to
\* calculate_2d_shine_intensity
Sweep2dCycle ==
    /\ pc = "sample" /\ sample_out = <<>>
    /\ LET cfg == [DefaultConfig EXCEPT !.easing = sample_in.easing,
                                        !.start = sample_in.start,
                                        !.padding = sample_in.padding]
       IN  sample_out' =
              [f \in 1..sample_in.total_frames |->
                  shine2d_position(cfg, GridOf(sample_in.shape), f - 1,
                                   sample_in.total_frames)]
    /\ pc' = "sampled"
    /\ UNCHANGED <<command, config, input_lines, rng, blend_in, blend_out, line, text,
                   total_frames, cycle, frame, twinkle_states, ops, trace, history, exit,
                   sample_in>>

Sweep2dSpec == Sweep2dInit /\ [][Sweep2dCycle]_vars

(***************************************************************************)
(* C29.  Range of the 2D sweep coordinate.                                 *)
(***************************************************************************)
C29_Diagonal ==
    SqrtSixteenths(sample_in.shape[1] * sample_in.shape[1]
                   + sample_in.shape[2] * sample_in.shape[2])

C30_Hidden(tr) == {i \in 1..Len(tr) : tr[i].op = "Hide"}
C30_Shown(tr) == {i \in 1..Len(tr) : tr[i].op = "Show"}

\* hidden by the first operation and not again; after a show-cursor command
\* nothing but the final newline
C30_Protocol(tr) ==
    /\ tr # <<>> => C30_Hidden(tr) = {1}
    /\ \A i \in C30_Shown(tr) : \A j \in (i + 1)..Len(tr) : tr[j] = Println /\ j = i + 1

\* a successful return: ..., Show, println
C30_ShownAtEnd(tr) ==
    /\ Len(tr) >= 3
    /\ C30_Shown(tr) = {Len(tr) - 1}
    /\ tr[Len(tr)] = Println
    /\ tr[Len(tr) - 2].op \in {"sleep", "Hide"}

\* C30: in every call of a renderer on a text it animates, the cursor is
\* hidden exactly once, by the first output operation; no show-cursor command
\* is issued while frames are drawn; a successful return has issued the
\* show-cursor command once, after the last frame and the last post-cycle
\* sleep, followed by one newline; a return on an output failure after the
\* cursor was hidden and before the show-cursor command has issued none.
C30_CursorProtocol ==
    /\ (pc \in {"cycle", "frame", "epilogue", "return"} /\ ~Degenerate(command, config, text))
          => C30_Protocol(trace)
    /\ \A h \in 1..Len(history) :
          ~Degenerate(command, config, history[h].text) =>
              /\ C30_Protocol(history[h].trace)
              /\ history[h].ret = "Ok" => C30_ShownAtEnd(history[h].trace)
              /\ (history[h].ret = "Err" /\ history[h].failed \notin {<<"Hide">>, <<"Show">>})
                    => /\ C30_Shown(history[h].trace) = {}
                       /\ C30_Hidden(history[h].trace) = {1}

\* two lines: the first call returns with the cursor shown, the second fails
\* while printing a frame and leaves it hidden
C30_Witness ==
    /\ exit = "failure" /\ Len(history) = 2
    /\ history[1].ret = "Ok" /\ C30_ShownAtEnd(history[1].trace)
    /\ Len(history[1].trace) > 6
    /\ history[2].ret = "Err" /\ history[2].failed = <<"PrintCh">>
    /\ C30_Hidden(history[2].trace) = {1} /\ C30_Shown(history[2].trace) = {}
    /\ Len(history[2].trace) > 6

====
